---------------------------- MODULE Spec2Model ----------------------------
(***************************************************************************)
(* A model of the jenkins-local-init provisioning orchestrator:            *)
(*   core/agent_config.py  JenkinsAgentConfigurator (control-plane client) *)
(*   core/agent.py         JenkinsAgent (worker provisioning loop)         *)
(*   core/jenkins.py       JenkinsMaster (coordinator lifecycle)           *)
(* Every handler is one action.  The answers of the container runtime and  *)
(* of the coordinator's HTTP surface are inputs of the handler, drawn by   *)
(* the action; the handler itself is an operator computed as the code      *)
(* computes it.  Each call leaves a record of what it returned and of the  *)
(* requests it issued, in issue order.                                     *)
(***************************************************************************)
EXTENDS Integers, Sequences, FiniteSets, TLC

VARIABLES
    base_ssh_port,  \* JenkinsAgent.base_ssh_port, read once from the configuration
    creds,          \* ids in the coordinator's credential store
    nodes,          \* names of the nodes registered with the coordinator
    containers,     \* worker containers known to the runtime: index -> status
    master,         \* status of the coordinator container
    plugins,        \* short names in the coordinator's installed-extensions listing
    last,           \* record of the most recent call
    prev,           \* record of the call before it
    work,           \* work requested so far: one unit per call, worker and extension
    faults,         \* requests failed so far by the runtime or the coordinator
    resources,      \* what exists beside the containers: network, volume, keys, image
    config_file,    \* what the commands have written to the persisted configuration
    self_crumb,     \* self.crumb of the control-plane client: empty or the cached header
    ngrok           \* the tunnel tool: the saved auth token file and the tunnel process

vars ==
    <<base_ssh_port, creds, nodes, containers, master, plugins, last, prev, work, faults,
      resources, config_file, self_crumb, ngrok>>

---------------------------------------------------------------------------
(* Bounds of the model *)

\* Work requested in one behaviour: a call costs one unit, a batch of n
\* workers n units, a list of n extensions n + 1 units; of the commands,
\* master deploy costs 2 units, agent deploy of n workers n + 1, setup with
\* n workers n + 2.
MaxWork == 3

\* Requests that the runtime or the coordinator fails in one behaviour.
MaxFaults == 2

---------------------------------------------------------------------------
(* Program constants *)

DefaultBaseSshPort == 2222
InternalSshPort == 22

base_name == "jenkins-local-agent"
CredentialId == "jenkins-agent-ssh-key"

\* Candidate values of agent.base_ssh_port: the default, and overrides
\* loaded from the persisted configuration file.
BasePorts == {DefaultBaseSshPort, DefaultBaseSshPort + 1}

\* How a `requests` call ends: status 200 ("ok"), another status ("err"),
\* or an exception raised by the call or by decoding its body ("exc").
HttpAnswers == {"ok", "err", "exc"}

None == "None"

---------------------------------------------------------------------------
(* Request records *)

\* One request issued by a handler.  who: worker index (0 outside a batch),
\* status: how the request ended, arg: request-specific detail.
Req(kind, status, arg) == [req |-> kind, who |-> 0, status |-> status, arg |-> arg]

NoArg == [none |-> TRUE]

RECURSIVE Tag(_, _)
\* The requests of seq s attributed to worker index i.
Tag(s, i) ==
    IF s = <<>> THEN <<>>
    ELSE <<[Head(s) EXCEPT !.who = i]>> \o Tag(Tail(s), i)

\* The set of elements of a sequence.
Range(s) == {s[k] : k \in 1..Len(s)}

\* A request that did not end well: a status other than success, or a
\* creation request the coordinator did not act on.
Failed(r) ==
    \/ r.status # "ok"
    \/ r.req = "createCredentials" /\ ~r.arg.applied

\* The number of failed requests of a trace.
Faults(trace) == Cardinality({k \in 1..Len(trace) : Failed(trace[k])})

---------------------------------------------------------------------------
(* Control-plane client: core/agent_config.py *)

\* Values the coordinator hands out: a session cookie, a crumb.
SessionIds == {"s1", "s2"}

\* self.crumb before any crumb was cached (None).
NoCrumb == {}

\* JenkinsAgentConfigurator._get_crumb: the body of the crumb issuer's
\* answer, or nothing (None) on another status or an exception.
_get_crumb(ans, token) ==
    [crumb_data |-> IF ans = "ok"
                    THEN {[crumbRequestField |-> "Jenkins-Crumb", crumb |-> token]}
                    ELSE {},
     trace |-> <<Req("crumb", ans, NoArg)>>]

\* JenkinsAgentConfigurator._get_headers.  cached: self.crumb at the call.
\* The crumb is fetched, stored and added to the headers only while none is
\* cached; with one cached the headers are returned as first built.
_get_headers(cached, ans, token) ==
    LET headers == {[field |-> "Content-Type", value |-> "application/json"]}
        g == _get_crumb(ans, token)
        fetched == {[field |-> d.crumbRequestField, value |-> d.crumb] : d \in g.crumb_data}
    IN  IF cached = NoCrumb
        THEN IF g.crumb_data # {}
             THEN [headers |-> headers \cup fetched, crumb |-> fetched, trace |-> g.trace]
             ELSE [headers |-> headers, crumb |-> cached, trace |-> g.trace]
        ELSE [headers |-> headers, crumb |-> cached, trace |-> <<>>]

\* Every way one _get_headers call can end.
GetHeadersOutcomes(cached) ==
    {_get_headers(cached, ans, token) : ans \in HttpAnswers, token \in SessionIds}

\* The answers configure_credentials can meet, one field per request in the
\* order of issue.  post: status of the creation request ("html": a success
\* status with an HTML body); applied: whether the coordinator stored the
\* entry on that request.
CredEnvs ==
    [list1 : HttpAnswers, key : {"ok", "exc"}, crumb : HttpAnswers,
     post : HttpAnswers \cup {"html"}, applied : BOOLEAN, list2 : HttpAnswers]

CredReturn(ok, msg, trace, store) ==
    [ok |-> ok, msg |-> msg, trace |-> trace, creds |-> store]

\* create_and_verify going on to the creation request without a crumb.
create_and_verify_ignoring_crumb(store, e, t1) ==
    LET t2 == t1 \o <<Req("readKey", e.key, NoArg)>>
        t3 == t2 \o <<Req("crumb", e.crumb, NoArg)>>
        store2 == IF e.applied THEN store \cup {CredentialId} ELSE store
        t4 == t3 \o <<Req("createCredentials", e.post,
                          [existed |-> CredentialId \in store,
                           applied |-> e.applied])>>
        t5 == t4 \o <<Req("list", e.list2, NoArg)>>
        exc == "Failed to configure credentials: exception"
    IN  IF e.key = "exc" THEN CredReturn(FALSE, exc, t2, store)
        ELSE IF e.post = "exc" THEN CredReturn(FALSE, exc, t4, store2)
        ELSE IF e.list2 = "ok" /\ CredentialId \in store2
            THEN CredReturn(TRUE, "Credentials configured successfully", t5, store2)
        ELSE CredReturn(FALSE, "Credentials not found after creation attempt", t5, store2)

\* configure_credentials from the point where no existing entry was seen:
\* read the key, fetch a crumb, submit the creation form, read the listing
\* again.  t1: the requests issued so far.
create_and_verify(store, e, t1) ==
    LET t2 == t1 \o <<Req("readKey", e.key, NoArg)>>
        t3 == t2 \o <<Req("crumb", e.crumb, NoArg)>>
        store2 == IF e.applied THEN store \cup {CredentialId} ELSE store
        t4 == t3 \o <<Req("createCredentials", e.post,
                          [existed |-> CredentialId \in store,
                           applied |-> e.applied])>>
        t5 == t4 \o <<Req("list", e.list2, NoArg)>>
        exc == "Failed to configure credentials: exception"
    IN  IF e.key = "exc" THEN CredReturn(FALSE, exc, t2, store)
        ELSE IF e.crumb = "exc" THEN CredReturn(FALSE, exc, t3, store)
        ELSE IF e.crumb = "err" THEN CredReturn(FALSE, "Failed to get crumb", t3, store)
        ELSE IF e.post = "exc" THEN CredReturn(FALSE, exc, t4, store2)
        ELSE IF e.list2 = "exc" THEN CredReturn(FALSE, exc, t5, store2)
        ELSE IF e.list2 = "ok"
            THEN IF CredentialId \in store2
                 THEN CredReturn(TRUE, "Credentials configured successfully", t5, store2)
                 ELSE CredReturn(FALSE, "Credentials not found after creation attempt",
                                 t5, store2)
        ELSE IF e.post = "html"
            THEN CredReturn(FALSE, "Got HTML response instead of confirmation", t5, store2)
        ELSE IF e.post = "ok"
            THEN CredReturn(TRUE, "Credentials configured successfully", t5, store2)
        ELSE CredReturn(FALSE, "Failed to configure credentials: response", t5, store2)

\* configure_credentials without the early return on an existing entry.
configure_credentials_no_check(store, e) ==
    LET t1 == <<Req("list", e.list1, NoArg)>>
    IN  IF e.list1 = "exc"
        THEN CredReturn(FALSE, "Failed to configure credentials: exception", t1, store)
        ELSE create_and_verify(store, e, t1)

\* JenkinsAgentConfigurator.configure_credentials on a credential store.
configure_credentials(store, e) ==
    LET t1 == <<Req("list", e.list1, NoArg)>>
    IN  IF e.list1 = "exc"
        THEN CredReturn(FALSE, "Failed to configure credentials: exception", t1, store)
        ELSE IF e.list1 = "ok" /\ CredentialId \in store
            THEN CredReturn(TRUE, "Credentials already exist", t1, store)
        ELSE create_and_verify(store, e, t1)

\* Every way one configure_credentials call can end on a store.
CredOutcomes(store) == {configure_credentials(store, e) : e \in CredEnvs}

\* The answers configure_agent can meet, one field per request in the order
\* of issue, and what the coordinator hands out: the session cookie set by
\* the first answer and the crumb in the body of the second, drawn from T.
NodeEnvs(T) ==
    [cookie : HttpAnswers, crumb : HttpAnswers, post : HttpAnswers,
     jsession : T, token : T]

\* How the coordinator can answer doCreateItem: a name that is already
\* registered is refused ("Agent called ... already exists", status 400).
CreateAnswers(agent_name, ns) ==
    IF agent_name \in ns THEN {"err", "exc"} ELSE HttpAnswers

NodeReturn(ok, msg, trace, ns) ==
    [ok |-> ok, msg |-> msg, trace |-> trace, nodes |-> ns]

\* configure_agent reporting success whatever the creation request returned.
configure_agent_any_status(agent_name, host, port, ns, e) ==
    LET t1 == <<Req("cookie", e.cookie, NoArg)>>
        t2 == t1 \o <<Req("crumb", e.crumb, [cookies |-> e.jsession])>>
        t3 == t2 \o <<Req("doCreateItem", e.post,
                          [name |-> agent_name, host |-> host, port |-> port,
                           credentialsId |-> CredentialId,
                           cookies |-> e.jsession, crumb |-> e.token])>>
    IN  IF e.cookie # "ok" THEN NodeReturn(FALSE, "Failed to get cookie", t1, ns)
        ELSE IF e.crumb # "ok" THEN NodeReturn(FALSE, "Failed to get crumb", t2, ns)
        ELSE NodeReturn(TRUE, "Agent configured successfully", t3,
                        IF e.post = "ok" THEN ns \cup {agent_name} ELSE ns)

\* configure_agent sending the creation request with the cookie and the
\* crumb of a session opened once, whatever this call was handed out.
configure_agent_stale_session(agent_name, host, port, ns, e) ==
    LET t1 == <<Req("cookie", e.cookie,
                    IF e.cookie = "ok" THEN [set_cookie |-> e.jsession] ELSE NoArg)>>
        t2 == t1 \o <<Req("crumb", e.crumb,
                          IF e.crumb = "ok"
                          THEN [cookies |-> e.jsession, crumb |-> e.token]
                          ELSE [cookies |-> e.jsession])>>
        t3 == t2 \o <<Req("doCreateItem", e.post,
                          [name |-> agent_name, host |-> host, port |-> port,
                           credentialsId |-> CredentialId,
                           cookies |-> "s1", crumb |-> "s1"])>>
    IN  IF e.cookie # "ok" THEN NodeReturn(FALSE, "Failed to get cookie", t1, ns)
        ELSE IF e.crumb # "ok" THEN NodeReturn(FALSE, "Failed to get crumb", t2, ns)
        ELSE IF e.post = "ok"
            THEN NodeReturn(TRUE, "Agent configured successfully", t3,
                            ns \cup {agent_name})
        ELSE NodeReturn(FALSE, "Failed to configure agent: response", t3, ns)

\* JenkinsAgentConfigurator.configure_agent on the coordinator's node set.
\* The session is new in every call; the cookie request records the cookie
\* it was handed, the crumb request the cookie it carries and the crumb it
\* was handed, the creation request the cookie and the crumb it carries.
configure_agent(agent_name, host, port, ns, e) ==
    LET cookie == e.jsession
        crumb == e.token
        t1 == <<Req("cookie", e.cookie,
                    IF e.cookie = "ok" THEN [set_cookie |-> e.jsession] ELSE NoArg)>>
        t2 == t1 \o <<Req("crumb", e.crumb,
                          IF e.crumb = "ok"
                          THEN [cookies |-> cookie, crumb |-> e.token]
                          ELSE [cookies |-> cookie])>>
        t3 == t2 \o <<Req("doCreateItem", e.post,
                          [name |-> agent_name, host |-> host, port |-> port,
                           credentialsId |-> CredentialId,
                           cookies |-> cookie, crumb |-> crumb])>>
        exc == "Failed to configure agent: exception"
    IN  IF e.cookie = "exc" THEN NodeReturn(FALSE, exc, t1, ns)
        ELSE IF e.cookie = "err" THEN NodeReturn(FALSE, "Failed to get cookie", t1, ns)
        ELSE IF e.crumb = "exc" THEN NodeReturn(FALSE, exc, t2, ns)
        ELSE IF e.crumb = "err" THEN NodeReturn(FALSE, "Failed to get crumb", t2, ns)
        ELSE IF e.post = "exc" THEN NodeReturn(FALSE, exc, t3, ns)
        ELSE IF e.post = "ok"
            THEN NodeReturn(TRUE, "Agent configured successfully", t3,
                            ns \cup {agent_name})
        ELSE NodeReturn(FALSE, "Failed to configure agent: response", t3, ns)

\* Every way one configure_agent call can end when the coordinator hands
\* out values of T.
NodeOutcomesWith(agent_name, host, port, ns, T) ==
    {configure_agent(agent_name, host, port, ns, e) :
        e \in {x \in NodeEnvs(T) : x.post \in CreateAnswers(agent_name, ns)}}

\* Every way one configure_agent call of a batch can end; the values handed
\* out are not told apart there.
NodeOutcomes(agent_name, host, port, ns) ==
    NodeOutcomesWith(agent_name, host, port, ns, {"s1"})

---------------------------------------------------------------------------
(* Worker provisioning loop: core/agent.py *)

\* JenkinsAgent._get_agent_name: f"{base_name}-{index}".
_get_agent_name(index) == <<base_name, index>>

\* The port of every worker is the base port.
_get_ssh_port_fixed(base, index) == base

\* JenkinsAgent._get_ssh_port.
_get_ssh_port(base, index) == base + (index - 1)

\* How the runtime can answer `docker run --name <name>`: a name already in
\* use is always refused.
RunAnswers(cs, index) ==
    IF cs[index] = "absent" THEN {"ok", "fail"} ELSE {"fail"}

\* _deploy_container reporting success whatever the run command returned.
_deploy_container_always_ok(index, ssh_port, cs, run) ==
    [success |-> TRUE,
     trace |-> <<Req("docker run", run,
                     [name |-> _get_agent_name(index), port |-> ssh_port]),
                 Req("docker logs", "ok", NoArg)>>,
     containers |-> IF run = "ok" THEN [cs EXCEPT ![index] = "running"] ELSE cs]

\* JenkinsAgent._deploy_container: docker run, then docker logs; the result
\* is the run command's.
_deploy_container(index, ssh_port, cs, run) ==
    [success |-> run = "ok",
     trace |-> <<Req("docker run", run,
                     [name |-> _get_agent_name(index), port |-> ssh_port]),
                 Req("docker logs", "ok", NoArg)>>,
     containers |-> IF run = "ok" THEN [cs EXCEPT ![index] = "running"] ELSE cs]

World(c, n, cs) == [creds |-> c, nodes |-> n, containers |-> cs]

AgentResult(index, port, cstat, jstat, error) ==
    [agent_name |-> _get_agent_name(index), ssh_port |-> port,
     container_status |-> cstat, jenkins_status |-> jstat, error |-> error]

\* deploy_agent going on to the node registration whatever the credential
\* step returned.
deploy_agent_ignoring_credentials(index, base, w, run, c, n) ==
    LET ssh_port == _get_ssh_port(base, index)
        dc == _deploy_container(index, ssh_port, w.containers, run)
        cstat == IF dc.success THEN "success" ELSE "failed"
    IN  IF ~dc.success
        THEN [result |-> AgentResult(index, ssh_port, cstat, None,
                                     "Container deployment failed"),
              trace |-> dc.trace,
              world |-> World(w.creds, w.nodes, dc.containers)]
        ELSE [result |-> AgentResult(index, ssh_port, cstat,
                                     IF n.ok THEN "success" ELSE "failed",
                                     IF n.ok THEN None
                                     ELSE "Failed to configure agent in Jenkins"),
              trace |-> dc.trace \o (IF index = 1 THEN c.trace ELSE <<>>) \o n.trace,
              world |-> World(IF index = 1 THEN c.creds ELSE w.creds,
                              n.nodes, dc.containers)]

\* deploy_agent leaving the error empty when the node registration failed.
deploy_agent_silent_registration(index, base, w, run, c, n) ==
    LET ssh_port == _get_ssh_port(base, index)
        dc == _deploy_container(index, ssh_port, w.containers, run)
        cstat == IF dc.success THEN "success" ELSE "failed"
    IN  IF ~dc.success
        THEN [result |-> AgentResult(index, ssh_port, cstat, None,
                                     "Container deployment failed"),
              trace |-> dc.trace,
              world |-> World(w.creds, w.nodes, dc.containers)]
        ELSE IF index = 1 /\ ~c.ok
        THEN [result |-> AgentResult(index, ssh_port, cstat, None,
                                     "Failed to configure SSH credentials"),
              trace |-> dc.trace \o c.trace,
              world |-> World(c.creds, w.nodes, dc.containers)]
        ELSE [result |-> AgentResult(index, ssh_port, cstat,
                                     IF n.ok THEN "success" ELSE "failed", None),
              trace |-> dc.trace \o (IF index = 1 THEN c.trace ELSE <<>>) \o n.trace,
              world |-> World(IF index = 1 THEN c.creds ELSE w.creds,
                              n.nodes, dc.containers)]

\* JenkinsAgent.deploy_agent.  run: the runtime's answer to docker run;
\* c: how configure_credentials ends if called; n: how configure_agent ends
\* if called.
deploy_agent(index, base, w, run, c, n) ==
    LET ssh_port == _get_ssh_port(base, index)
        dc == _deploy_container(index, ssh_port, w.containers, run)
        cstat == IF dc.success THEN "success" ELSE "failed"
    IN  IF ~dc.success
        THEN [result |-> AgentResult(index, ssh_port, cstat, None,
                                     "Container deployment failed"),
              trace |-> dc.trace,
              world |-> World(w.creds, w.nodes, dc.containers)]
        ELSE IF index = 1 /\ ~c.ok
        THEN [result |-> AgentResult(index, ssh_port, cstat, None,
                                     "Failed to configure SSH credentials"),
              trace |-> dc.trace \o c.trace,
              world |-> World(c.creds, w.nodes, dc.containers)]
        ELSE [result |-> AgentResult(index, ssh_port, cstat,
                                     IF n.ok THEN "success" ELSE "failed",
                                     IF n.ok THEN None
                                     ELSE "Failed to configure agent in Jenkins"),
              trace |-> dc.trace \o (IF index = 1 THEN c.trace ELSE <<>>) \o n.trace,
              world |-> World(IF index = 1 THEN c.creds ELSE w.creds,
                              n.nodes, dc.containers)]

\* The ways the credential step of deploy_agent can end: it runs for
\* index 1 only.
CredChoices(index, store) ==
    IF index = 1 THEN CredOutcomes(store)
    ELSE {CredReturn(TRUE, "not called", <<>>, store)}

\* deploy_agent registering the worker under the host's address and the
\* published port.
DeployAgentOutcomes_published_port(index, base, w) ==
    {deploy_agent(index, base, w, run, c, n) :
        run \in RunAnswers(w.containers, index),
        c \in CredChoices(index, w.creds),
        n \in NodeOutcomes(_get_agent_name(index), <<"localhost", index>>,
                           _get_ssh_port(base, index), w.nodes)}

\* Every way one deploy_agent call can end in world w.
DeployAgentOutcomes(index, base, w) ==
    {deploy_agent(index, base, w, run, c, n) :
        run \in RunAnswers(w.containers, index),
        c \in CredChoices(index, w.creds),
        n \in NodeOutcomes(_get_agent_name(index), _get_agent_name(index),
                           InternalSshPort, w.nodes)}

\* Python's range(a, b) as a sequence.
range(a, b) == [k \in 1..(b - a) |-> a + k - 1]

\* The loop stops one index short.
AgentIndices_short(count) == range(1, count)

\* The indices deploy_agents iterates over: range(1, count + 1).
AgentIndices(count) == range(1, count + 1)

RECURSIVE DeployLoop(_, _, _, _, _, _)
\* The for loop of deploy_agents over the remaining indices todo, with the
\* results and requests accumulated so far; f: the failed requests the
\* batch may meet.
DeployLoop(todo, base, w, results, trace, f) ==
    IF Len(todo) = 0
    THEN {[results |-> results, trace |-> trace, world |-> w]}
    ELSE UNION {DeployLoop(Tail(todo), base, o.world,
                           Append(results, o.result),
                           trace \o Tag(o.trace, Head(todo)), f) :
                   o \in {x \in DeployAgentOutcomes(Head(todo), base, w) :
                             Faults(trace \o x.trace) <= f}}

\* JenkinsAgent.deploy_agents: every way a batch of count workers can end.
deploy_agents(count, base, w, f) ==
    DeployLoop(AgentIndices(count), base, w, <<>>, <<>>, f)

\* The states of a worker container in the runtime.
ContainerStates == {"absent", "running", "exited"}

\* How the runtime can answer a command on a worker container in state c.
\* stop: needs the container, and is accepted on a stopped one; rm: refused
\* on a running container; rm -f: needs the container only.
WorkerDockerAnswers(cmd, c) ==
    IF c = "absent" THEN {"fail"}
    ELSE IF cmd = "rm" /\ c = "running" THEN {"fail"}
    ELSE {"ok", "fail"}

RemoveReturn(ok, msg, trace, cs) ==
    [ok |-> ok, msg |-> msg, trace |-> trace, containers |-> cs]

\* remove_agent issuing the remove command whatever the stop command returned.
remove_agent_rm_always(index, cs, sa, ra) ==
    LET name == _get_agent_name(index)
        cs1 == IF sa = "ok" THEN [cs EXCEPT ![index] = "exited"] ELSE cs
    IN  RemoveReturn(ra = "ok", "docker rm output",
                     Tag(<<Req("docker stop", sa, [name |-> name]),
                           Req("docker rm", ra, [name |-> name])>>, index),
                     IF ra = "ok" THEN [cs1 EXCEPT ![index] = "absent"] ELSE cs1)

\* remove_agent returning after the stop command.
remove_agent_stop_only(index, cs, sa, ra) ==
    LET name == _get_agent_name(index)
        cs1 == IF sa = "ok" THEN [cs EXCEPT ![index] = "exited"] ELSE cs
    IN  RemoveReturn(sa = "ok", "docker stop output",
                     Tag(<<Req("docker stop", sa, [name |-> name])>>, index), cs1)

\* JenkinsAgent.remove_agent.  sa, ra: the runtime's answers to docker stop
\* and docker rm.
remove_agent(index, cs, sa, ra) ==
    LET name == _get_agent_name(index)
        t1 == Tag(<<Req("docker stop", sa, [name |-> name])>>, index)
        t2 == t1 \o Tag(<<Req("docker rm", ra, [name |-> name])>>, index)
        cs1 == IF sa = "ok" THEN [cs EXCEPT ![index] = "exited"] ELSE cs
    IN  IF sa # "ok"
        THEN RemoveReturn(FALSE, "Failed to stop agent", t1, cs1)
        ELSE RemoveReturn(ra = "ok", "docker rm output", t2,
                          IF ra = "ok" THEN [cs1 EXCEPT ![index] = "absent"] ELSE cs1)

\* Every way one remove_agent call can end.
RemoveAgentOutcomes(index, cs) ==
    UNION {{remove_agent(index, cs, sa, ra) :
               ra \in WorkerDockerAnswers("rm", IF sa = "ok" THEN "exited" ELSE cs[index])} :
           sa \in WorkerDockerAnswers("stop", cs[index])}

\* The orders in which `docker ps -a` can print the containers of set S.
ListingOrders(S) ==
    {s \in [1..Cardinality(S) -> S] : \A j, k \in 1..Cardinality(S) : j # k => s[j] # s[k]}

\* JenkinsAgent.list_agents: one entry per line of the listing, in its
\* order; an empty list when the listing command fails.
list_agents(cs, ps, order) ==
    IF ps = "ok"
    THEN [k \in 1..Len(order) |->
             [name |-> _get_agent_name(order[k]), status |-> cs[order[k]], id |-> order[k]]]
    ELSE <<>>

\* Every way one list_agents call can end.
ListAgentsOutcomes(cs) ==
    {[ps |-> ps, agents |-> list_agents(cs, ps, order)] :
        ps \in {"ok", "fail"},
        order \in ListingOrders({i \in DOMAIN cs : cs[i] # "absent"})}

\* The loop stops at the first removal that fails.
remove_step_stopping(agent, acc, ans) ==
    IF acc.results # <<>> /\ ~acc.results[Len(acc.results)]
    THEN acc
    ELSE [results |-> Append(acc.results, ans = "ok"),
          trace |-> acc.trace \o Tag(<<Req("docker rm -f", ans, [id |-> agent.id])>>,
                                     agent.id),
          containers |-> IF ans = "ok" THEN [acc.containers EXCEPT ![agent.id] = "absent"]
                         ELSE acc.containers]

\* One pass of the loop body of remove_all_agents.
remove_step(agent, acc, ans) ==
    [results |-> Append(acc.results, ans = "ok"),
     trace |-> acc.trace \o Tag(<<Req("docker rm -f", ans, [id |-> agent.id])>>, agent.id),
     containers |-> IF ans = "ok" THEN [acc.containers EXCEPT ![agent.id] = "absent"]
                    ELSE acc.containers]

RECURSIVE RemoveLoop(_, _, _)
\* The for loop of remove_all_agents over the remaining entries: every way
\* it can end, meeting at most f failed requests.
RemoveLoop(todo, acc, f) ==
    IF Len(todo) = 0 THEN {acc}
    ELSE UNION {RemoveLoop(Tail(todo), a, f) :
                   a \in {x \in {remove_step(Head(todo), acc, ans) :
                                    ans \in WorkerDockerAnswers("rm -f",
                                                acc.containers[Head(todo).id])} :
                             Faults(x.trace) <= f}}

\* JenkinsAgent.remove_all_agents: every way it can end.
remove_all_agents(cs, f) ==
    UNION {{[agents |-> l.agents, results |-> o.results, trace |-> o.trace,
             containers |-> o.containers] :
               o \in RemoveLoop(l.agents,
                                [results |-> <<>>,
                                 trace |-> <<Req("docker ps -a", l.ps, NoArg)>>,
                                 containers |-> cs], f)} :
           l \in ListAgentsOutcomes(cs)}

---------------------------------------------------------------------------
(* Coordinator lifecycle manager: core/jenkins.py *)

SleepInterval == 5
DefaultTimeout == 180

\* How the coordinator answers readiness probes during one wait.  reachable:
\* it answers 200 from readyAt seconds after the wait began; until then, or
\* for the whole wait when not reachable, a probe ends as early says: the
\* connection is refused (requests.get raises), another status is answered,
\* or (hang) the connection is accepted and never answered.  A coordinator
\* ready at once has no early probe.  Only a running container listens at
\* all.
EarlyAnswers == {"refused", "status", "hang"}

WaitBehaviours(m, readyTimes) ==
    IF m = "running"
    THEN {[reachable |-> TRUE, readyAt |-> 0, early |-> "none"]}
         \cup [reachable : {TRUE}, readyAt : readyTimes \ {0}, early : EarlyAnswers]
         \cup [reachable : {FALSE}, readyAt : {0}, early : EarlyAnswers]
    ELSE {[reachable |-> FALSE, readyAt |-> 0, early |-> "refused"]}

\* How a wait ends.  returned: the call came back; raised: it came back
\* with an exception instead of a boolean.
WaitReturn(returned, ready, elapsed, probes) ==
    [returned |-> returned, ready |-> ready, raised |-> FALSE,
     elapsed |-> elapsed, probes |-> probes]

RECURSIVE WaitLoop_raising(_, _, _, _)
\* The while loop without the except clause: a refused probe ends the call.
WaitLoop_raising(elapsed, timeout, b, probes) ==
    IF ~(elapsed < timeout) THEN WaitReturn(TRUE, FALSE, elapsed, probes)
    ELSE IF b.reachable /\ elapsed >= b.readyAt
        THEN WaitReturn(TRUE, TRUE, elapsed, probes + 1)
    ELSE IF b.early = "hang" THEN WaitReturn(FALSE, FALSE, elapsed, probes + 1)
    ELSE IF b.early = "refused"
        THEN [WaitReturn(TRUE, FALSE, elapsed, probes + 1) EXCEPT !.raised = TRUE]
    ELSE WaitLoop_raising(elapsed + SleepInterval, timeout, b, probes + 1)

RECURSIVE WaitLoop(_, _, _, _)
\* The while loop of wait_for_jenkins_ready, elapsed seconds after
\* start_time, probes requests issued so far.  requests.get is called
\* without a timeout: a probe that is never answered never returns.  A
\* refused probe raises into `except: pass`, another status falls through
\* the if: both go on to the sleep.
WaitLoop(elapsed, timeout, b, probes) ==
    IF ~(elapsed < timeout) THEN WaitReturn(TRUE, FALSE, elapsed, probes)
    ELSE IF b.reachable /\ elapsed >= b.readyAt
        THEN WaitReturn(TRUE, TRUE, elapsed, probes + 1)
    ELSE IF b.early = "hang" THEN WaitReturn(FALSE, FALSE, elapsed, probes + 1)
    ELSE WaitLoop(elapsed + SleepInterval, timeout, b, probes + 1)

\* JenkinsMaster.wait_for_jenkins_ready.
wait_for_jenkins_ready(timeout, b) == WaitLoop(0, timeout, b, 0)

\* A wait as a request of the calling handler.
WaitStatus(w) == IF ~w.returned THEN "hang" ELSE IF w.ready THEN "ok" ELSE "timeout"

\* How the runtime can answer a command on the coordinator container.
\* run: a name in use is refused; stop, start: need the container.
DockerAnswers(cmd, m) ==
    IF cmd = "ps" THEN {"ok", "fail"}
    ELSE IF cmd = "run" THEN (IF m = "absent" THEN {"ok", "fail"} ELSE {"fail"})
    ELSE IF m = "absent" THEN {"fail"} ELSE {"ok", "fail"}

\* The container is never reported as up.
is_running_never(m, ps) == FALSE

\* JenkinsMaster.is_running: docker ps succeeded and its output has "Up".
is_running(m, ps) == ps = "ok" /\ m = "running"

MasterReturn(ok, msg, trace, m) ==
    [ok |-> ok, msg |-> msg, trace |-> trace, master |-> m]

\* JenkinsMaster.deploy.
deploy(m, ps, run) ==
    LET t1 == <<Req("docker ps", ps, NoArg)>>
    IN  IF is_running(m, ps)
        THEN MasterReturn(TRUE, "Jenkins master is already running", t1, m)
        ELSE MasterReturn(run = "ok", "docker run output",
                          t1 \o <<Req("docker run", run, NoArg)>>,
                          IF run = "ok" THEN "running" ELSE m)

\* JenkinsMaster.stop.
stop(m, ans) ==
    MasterReturn(ans = "ok", "docker stop output", <<Req("docker stop", ans, NoArg)>>,
                 IF ans = "ok" THEN "exited" ELSE m)

\* JenkinsMaster.start.
start(m, ans) ==
    MasterReturn(ans = "ok", "docker start output", <<Req("docker start", ans, NoArg)>>,
                 IF ans = "ok" THEN "running" ELSE m)

\* restart issuing the start command whatever the stop command returned.
restart_start_always(m, sa, ta) ==
    LET s1 == stop(m, sa)
        s2 == start(s1.master, ta)
    IN  IF ~s2.ok
        THEN MasterReturn(FALSE, "Failed to start container",
                          s1.trace \o s2.trace, s2.master)
        ELSE MasterReturn(TRUE, "Container restarted successfully",
                          s1.trace \o s2.trace, s2.master)

\* JenkinsMaster.restart.  sa, ta: the runtime's answers to stop and start.
restart(m, sa, ta) ==
    LET s1 == stop(m, sa)
        s2 == start(s1.master, ta)
    IN  IF ~s1.ok THEN MasterReturn(FALSE, "Failed to stop container", s1.trace, s1.master)
        ELSE IF ~s2.ok
            THEN MasterReturn(FALSE, "Failed to start container",
                              s1.trace \o s2.trace, s2.master)
        ELSE MasterReturn(TRUE, "Container restarted successfully",
                          s1.trace \o s2.trace, s2.master)

\* Every way one restart can end on container status m.
RestartOutcomes(m) ==
    UNION {{restart(m, sa, ta) :
               ta \in DockerAnswers("start", IF sa = "ok" THEN "exited" ELSE m)} :
           sa \in DockerAnswers("stop", m)}

\* The answers one pass of the per-extension loop can meet: the listing
\* query and the install request.
PluginEnvs == [info : HttpAnswers, post : HttpAnswers]

\* An entry of installed_plugins or failed_plugins: the bare name, or the
\* name followed by " (HTTP <status>)" or " (Error: ...)".
Entry(plugin, note) == [plugin |-> plugin, note |-> note]

LoopState(installed, failed, trace, ps) ==
    [installed |-> installed, failed |-> failed, trace |-> trace, plugins |-> ps]

\* A loop body that restarts the coordinator after each install request.
install_one_restarting(plugin, acc, pe) ==
    LET t1 == acc.trace \o <<Req("pluginInfo", pe.info, [plugin |-> plugin])>>
        t2 == t1 \o <<Req("installNecessaryPlugins", pe.post, [plugin |-> plugin]),
                      Req("docker stop", "ok", NoArg), Req("docker start", "ok", NoArg)>>
    IN  IF pe.info = "exc"
        THEN LoopState(acc.installed, Append(acc.failed, Entry(plugin, "Error")),
                       t1, acc.plugins)
        ELSE IF pe.info = "ok" /\ plugin \in acc.plugins
        THEN LoopState(Append(acc.installed, Entry(plugin, "")), acc.failed,
                       t1, acc.plugins)
        ELSE IF pe.post = "ok"
        THEN LoopState(Append(acc.installed, Entry(plugin, "")), acc.failed,
                       t2, acc.plugins \cup {plugin})
        ELSE LoopState(acc.installed, Append(acc.failed, Entry(plugin, "HTTP")),
                       t2, acc.plugins)

\* One pass of the loop body that records nothing for a refused install.
install_one_dropping_refused(plugin, acc, pe) ==
    LET t1 == acc.trace \o <<Req("pluginInfo", pe.info, [plugin |-> plugin])>>
        t2 == t1 \o <<Req("installNecessaryPlugins", pe.post, [plugin |-> plugin])>>
    IN  IF pe.info = "exc"
        THEN LoopState(acc.installed, Append(acc.failed, Entry(plugin, "Error")),
                       t1, acc.plugins)
        ELSE IF pe.info = "ok" /\ plugin \in acc.plugins
        THEN LoopState(Append(acc.installed, Entry(plugin, "")), acc.failed,
                       t1, acc.plugins)
        ELSE IF pe.post = "ok"
        THEN LoopState(Append(acc.installed, Entry(plugin, "")), acc.failed,
                       t2, acc.plugins \cup {plugin})
        ELSE IF pe.post = "err"
        THEN LoopState(acc.installed, acc.failed, t2, acc.plugins)
        ELSE LoopState(acc.installed, Append(acc.failed, Entry(plugin, "Error")),
                       t2, acc.plugins)

\* One pass of the loop body of install_plugins for `plugin`.
install_one(plugin, acc, pe) ==
    LET t1 == acc.trace \o <<Req("pluginInfo", pe.info, [plugin |-> plugin])>>
        t2 == t1 \o <<Req("installNecessaryPlugins", pe.post, [plugin |-> plugin])>>
    IN  IF pe.info = "exc"
        THEN LoopState(acc.installed, Append(acc.failed, Entry(plugin, "Error")),
                       t1, acc.plugins)
        ELSE IF pe.info = "ok" /\ plugin \in acc.plugins
        THEN LoopState(Append(acc.installed, Entry(plugin, "")), acc.failed,
                       t1, acc.plugins)
        ELSE IF pe.post = "ok"
        THEN LoopState(Append(acc.installed, Entry(plugin, "")), acc.failed,
                       t2, acc.plugins \cup {plugin})
        ELSE IF pe.post = "err"
        THEN LoopState(acc.installed, Append(acc.failed, Entry(plugin, "HTTP")),
                       t2, acc.plugins)
        ELSE LoopState(acc.installed, Append(acc.failed, Entry(plugin, "Error")),
                       t2, acc.plugins)

RECURSIVE InstallLoop(_, _, _)
\* The for loop of install_plugins over the remaining names: every way it
\* can end, meeting at most f failed requests.
InstallLoop(todo, acc, f) ==
    IF Len(todo) = 0 THEN {acc}
    ELSE UNION {InstallLoop(Tail(todo), a, f) :
                   a \in {x \in {install_one(Head(todo), acc, pe) : pe \in PluginEnvs} :
                             Faults(x.trace) <= f}}

Message(text, names) == [text |-> text, names |-> names]

PluginsReturn(returned, ok, msg, lo, trace, m) ==
    [returned |-> returned, ok |-> ok, msg |-> msg, installed |-> lo.installed,
     failed |-> lo.failed, trace |-> trace, master |-> m, plugins |-> lo.plugins]

\* A return that forgets the failed names.
install_result_ignore_failed(lo, w2, trace, m) ==
    IF ~w2.returned
    THEN PluginsReturn(FALSE, FALSE, Message("", <<>>), lo, trace, m)
    ELSE IF ~w2.ready
    THEN PluginsReturn(TRUE, FALSE,
             Message("Jenkins did not restart properly after plugin installation", <<>>),
             lo, trace, m)
    ELSE PluginsReturn(TRUE, TRUE,
                       Message("Successfully installed plugins", lo.installed),
                       lo, trace, m)

\* The tail of install_plugins, after the restart: the second readiness
\* wait and the return value.
install_result(lo, w2, trace, m) ==
    IF ~w2.returned
    THEN PluginsReturn(FALSE, FALSE, Message("", <<>>), lo, trace, m)
    ELSE IF ~w2.ready
    THEN PluginsReturn(TRUE, FALSE,
             Message("Jenkins did not restart properly after plugin installation", <<>>),
             lo, trace, m)
    ELSE IF lo.failed # <<>>
    THEN PluginsReturn(TRUE, FALSE, Message("Failed to install plugins", lo.failed),
                       lo, trace, m)
    ELSE PluginsReturn(TRUE, TRUE,
                       Message("Successfully installed plugins", lo.installed),
                       lo, trace, m)

\* JenkinsMaster.install_plugins.  w1, w2: how the two readiness waits end;
\* crumb: the answer to the crumb request; lo: how the per-extension loop
\* ends; rs: how the restart ends.
install_plugins(m, ps, w1, crumb, lo, rs, w2) ==
    LET none == LoopState(<<>>, <<>>, <<>>, ps)
        t1 == <<Req("wait", WaitStatus(w1), NoArg)>>
        t2 == t1 \o <<Req("crumb", crumb, NoArg)>>
        t3 == t2 \o lo.trace \o <<Req("sleep", "ok", NoArg)>> \o rs.trace
                 \o <<Req("wait", WaitStatus(w2), NoArg)>>
    IN  IF ~w1.returned
        THEN PluginsReturn(FALSE, FALSE, Message("", <<>>), none, t1, m)
        ELSE IF ~w1.ready
        THEN PluginsReturn(TRUE, FALSE,
                 Message("Jenkins did not start within timeout period", <<>>),
                 none, t1, m)
        ELSE IF crumb # "ok"
        THEN PluginsReturn(TRUE, FALSE, Message("Failed to get CSRF token", <<>>),
                           none, t2, m)
        ELSE install_result(lo, w2, t3, rs.master)

\* The coordinator's timing a handler-internal wait distinguishes: ready at
\* once, ready at the last probe before the deadline, ready at the deadline.
HandlerReadyTimes == {0, DefaultTimeout - SleepInterval, DefaultTimeout}

\* Every way a handler's wait_for_jenkins_ready() can end on container
\* status m.
HandlerWaits(m) ==
    {wait_for_jenkins_ready(DefaultTimeout, b) :
        b \in WaitBehaviours(m, HandlerReadyTimes)}

\* Every way one install_plugins call can end.
InstallPluginsOutcomes(plugs, m, ps, f) ==
    LET up == HandlerWaits("running")
        down == HandlerWaits("exited")
        rss == RestartOutcomes(m)
        los == InstallLoop(plugs, LoopState(<<>>, <<>>, <<>>, ps), f)
        all == UNION {UNION {{install_plugins(m, ps, w1, crumb, lo, rs, w2) :
                                 w2 \in IF rs.master = "running" THEN up ELSE down} :
                             rs \in rss} :
                      w1 \in HandlerWaits(m), crumb \in HttpAnswers, lo \in los}
    IN  {r \in all : Faults(r.trace) <= f}

SetupReturn(returned, ok, msg, trace, m) ==
    [returned |-> returned, ok |-> ok, msg |-> msg, trace |-> trace, master |-> m]

\* configure_initial_setup going on when the script copy failed.
configure_initial_setup_ignoring_copy(m, w1, mk, cp, rs) ==
    LET t1 == <<Req("wait", WaitStatus(w1), NoArg)>>
        t2 == t1 \o <<Req("docker exec mkdir", mk, NoArg)>>
        t3 == t2 \o <<Req("write init.groovy", "ok", NoArg), Req("docker cp", cp, NoArg)>>
    IN  IF ~w1.returned THEN SetupReturn(FALSE, FALSE, "", t1, m)
        ELSE IF ~w1.ready
        THEN SetupReturn(TRUE, FALSE, "Jenkins did not start within timeout period", t1, m)
        ELSE IF mk # "ok"
        THEN SetupReturn(TRUE, FALSE, "Failed to create init.groovy.d directory", t2, m)
        ELSE SetupReturn(TRUE, TRUE, "Initial setup completed successfully",
                         t3 \o rs.trace, rs.master)

\* JenkinsMaster.configure_initial_setup.  w1: how the readiness wait ends;
\* mk, cp: the runtime's answers to docker exec mkdir and docker cp; rs: how
\* the restart ends.
configure_initial_setup(m, w1, mk, cp, rs) ==
    LET t1 == <<Req("wait", WaitStatus(w1), NoArg)>>
        t2 == t1 \o <<Req("docker exec mkdir", mk, NoArg)>>
        t3 == t2 \o <<Req("write init.groovy", "ok", NoArg), Req("docker cp", cp, NoArg)>>
    IN  IF ~w1.returned THEN SetupReturn(FALSE, FALSE, "", t1, m)
        ELSE IF ~w1.ready
        THEN SetupReturn(TRUE, FALSE, "Jenkins did not start within timeout period", t1, m)
        ELSE IF mk # "ok"
        THEN SetupReturn(TRUE, FALSE, "Failed to create init.groovy.d directory", t2, m)
        ELSE IF cp # "ok"
        THEN SetupReturn(TRUE, FALSE, "Failed to copy initialization script", t3, m)
        ELSE SetupReturn(TRUE, TRUE, "Initial setup completed successfully",
                         t3 \o rs.trace, rs.master)

\* Every way one configure_initial_setup call can end, meeting at most f
\* failed requests.
ConfigureInitialSetupOutcomes(m, f) ==
    LET all == {configure_initial_setup(m, w1, mk, cp, rs) :
                   w1 \in HandlerWaits(m), mk \in DockerAnswers("exec", m),
                   cp \in DockerAnswers("cp", m), rs \in RestartOutcomes(m)}
    IN  {r \in all : Faults(r.trace) <= f}

---------------------------------------------------------------------------
(* The state machine *)

PluginNames == {"a", "b"}

\* The persisted configuration as no command has written it: the number of
\* saves, the worker count saved (a sequence, empty for none) and the
\* coordinator port saved.
NoConfigFile == [saves |-> 0, agents |-> <<>>, port |-> None]

\* What the commands create beside the containers: the cluster network and
\* the data volume in the runtime, the key pair on disk, the worker image.
Resources == {"network", "volume", "ssh_keys", "agent_image"}

\* What the coordinator container is attached to.
CoordinatorResources == {"network", "volume"}

\* The resources that can exist with the coordinator container in state m:
\* a container that exists was run on the network with the volume.
ResourcesWith(m) ==
    IF m = "absent" THEN SUBSET Resources
    ELSE {r \in SUBSET Resources : CoordinatorResources \subseteq r}

\* The lists of at most n extension names.
PluginLists(n) == UNION {[1..k -> PluginNames] : k \in 0..n}

\* Timeouts passed to wait_for_jenkins_ready (none, one that ends between
\* two probes, the default), and the times at which the coordinator may
\* become ready during such a wait (at once, at the third probe, at the
\* default deadline).
Timeouts == {0, 2 * SleepInterval + 2, DefaultTimeout}
WaitReadyTimes == {0, 2 * SleepInterval, DefaultTimeout}

NoCall == [op |-> "none"]

\* The requests of a trace of the given kind.
Sent(trace, kind) == {k \in 1..Len(trace) : trace[k].req = kind}

\* What is kept of a call once another call follows it.
Summary(l) ==
    IF l.op \in {"configure_credentials", "deploy"}
    THEN [op |-> l.op, ok |-> l.ok, faults |-> Faults(l.trace),
          creates |-> Cardinality(Sent(l.trace, "createCredentials")),
          runs |-> Cardinality(Sent(l.trace, "docker run"))]
    ELSE IF l.op \in {"create_network", "create_volume"}
    THEN [op |-> l.op, ok |-> l.ok,
          creates |-> Cardinality({k \in 1..Len(l.trace) :
                                      l.trace[k].req = "docker " \o l.kind \o " create"})]
    ELSE IF l.op = "authenticate"
    THEN [op |-> l.op, ok |-> l.ok, token |-> l.token,
          before |-> l.before.auth_token_file]
    ELSE IF l.op = "configure_agent"
    THEN [op |-> l.op, ok |-> l.ok, name |-> l.name,
          session |-> {<<l.trace[k].arg.cookies, l.trace[k].arg.crumb>> :
                          k \in Sent(l.trace, "doCreateItem")}]
    ELSE [op |-> l.op]

---------------------------------------------------------------------------
(* Commands: cli/main.py *)

\* The extensions the setup command installs.
RequiredPlugins == <<"a", "b">>

\* The requests that go to the coordinator's HTTP surface.
HttpRequests ==
    {"list", "crumb", "createCredentials", "cookie", "doCreateItem",
     "pluginInfo", "installNecessaryPlugins"}

CmdWorld(m, ps, c, n, cs, res, cfg) ==
    [master |-> m, plugins |-> ps, creds |-> c, nodes |-> n, containers |-> cs,
     resources |-> res, config_file |-> cfg]

\* The configuration record as config/defaults.py writes it, by the keys
\* the commands change: no worker count, the coordinator's default port.
DEFAULT_CONFIG == [agents |-> <<>>, port |-> "8080"]

\* ConfigManager.__init__ with load_config: self.config = DEFAULT_CONFIG
\* binds the module's dict itself, and self.config.update(loaded_config)
\* changes that dict where the persisted file has a value.  cfg: the dict's
\* content; file: the persisted file.
load_config(cfg, file) ==
    IF file.saves = 0 THEN cfg
    ELSE [agents |-> file.agents,
          port |-> IF file.port = None THEN cfg.port ELSE file.port]

\* A command under way, in a process of its own: the requests issued, the
\* world they left, whether the command is over, whether it returned, the
\* pipeline steps entered with the outcome each reported, the results of its
\* worker batch, and config, the content of the one dict that
\* DEFAULT_CONFIG, config_manager.config and the self.config of every
\* manager (get_config returns self.config) all name.
StartRun(w) ==
    [trace |-> <<>>, world |-> w, done |-> FALSE, returned |-> TRUE, steps |-> <<>>,
     results |-> <<>>, config |-> load_config(DEFAULT_CONFIG, w.config_file)]

Ext(r, trace) == [r EXCEPT !.trace = @ \o trace]

Entered(r, name, ok) == [r EXCEPT !.steps = Append(@, [step |-> name, ok |-> ok])]

\* The command returns here.
Return(r) == [r EXCEPT !.done = TRUE]

\* The command is stuck in a call that never returns.
Stuck(r) == [r EXCEPT !.done = TRUE, !.returned = FALSE]

\* The runs of S that are over, and those that go on to the next step.
Over(S) == {r \in S : r.done}

Live(S) == {r \in S : ~r.done}

\* The runs of S that met at most f failed requests.
Within(S, f) == {r \in S : Faults(r.trace) <= f}

\* config_manager.update_config: self.config.update changes the dict in
\* place, save_config writes it to the file.
update_config(r, key, value) ==
    [Ext(r, <<Req("save_config", "ok", [key |-> key, value |-> value])>>)
        EXCEPT !.config = [@ EXCEPT ![key] = value],
               !.world.config_file =
                   [[@ EXCEPT ![key] = value] EXCEPT !.saves = @ + 1]]

\* docker_manager.check_docker_running, and the return when it fails.
CheckDocker(r) ==
    {IF info = "ok" THEN Ext(r, <<Req("docker info", info, NoArg)>>)
     ELSE Return(Ext(r, <<Req("docker info", info, NoArg)>>)) :
        info \in {"ok", "fail"}}

\* create_network / create_volume issuing the create command whatever the
\* listing holds.
create_resource_unchecked(kind, res, ls, create) ==
    LET t1 == <<Req("docker " \o kind \o " ls", ls, NoArg)>>
        t2 == t1 \o <<Req("docker " \o kind \o " create", create, NoArg)>>
    IN  IF ls # "ok" THEN [ok |-> FALSE, trace |-> t1, resources |-> res]
        ELSE [ok |-> create = "ok", trace |-> t2,
              resources |-> IF create = "ok" THEN res \cup {kind} ELSE res]

\* DockerManager.create_network / create_volume: list, and create unless
\* listed.
create_resource(kind, res, ls, create) ==
    LET t1 == <<Req("docker " \o kind \o " ls", ls, NoArg)>>
        t2 == t1 \o <<Req("docker " \o kind \o " create", create, NoArg)>>
    IN  IF ls # "ok" THEN [ok |-> FALSE, trace |-> t1, resources |-> res]
        ELSE IF kind \in res THEN [ok |-> TRUE, trace |-> t1, resources |-> res]
        ELSE [ok |-> create = "ok", trace |-> t2,
              resources |-> IF create = "ok" THEN res \cup {kind} ELSE res]

\* The network or volume step of a command: its outcome does not stop the
\* command.
CreateResource(r, kind) ==
    {LET c == create_resource(kind, r.world.resources, ls, create)
     IN  [Ext(r, c.trace) EXCEPT !.world.resources = c.resources] :
        ls \in {"ok", "fail"}, create \in {"ok", "fail"}}

CreateNetwork(r) == CreateResource(r, "network")

CreateVolume(r) == CreateResource(r, "volume")

\* The key step of setup: generate the pair unless it exists, and return
\* when the generation fails.
SetupKeys(r) ==
    IF "ssh_keys" \in r.world.resources
    THEN {Ext(r, <<Req("keys_exist", "ok", [exists |-> TRUE])>>)}
    ELSE {LET t == <<Req("keys_exist", "ok", [exists |-> FALSE]),
                     Req("ssh-keygen", gen, NoArg)>>
          IN  IF gen = "ok"
              THEN [Ext(r, t) EXCEPT !.world.resources = @ \cup {"ssh_keys"}]
              ELSE Return(Ext(r, t)) :
             gen \in {"ok", "fail"}}

\* How the runtime can answer the coordinator's docker run: it needs the
\* network.
MasterRunAnswers(w) ==
    IF "network" \in w.resources THEN DockerAnswers("run", w.master) ELSE {"fail"}

\* The coordinator deploy step: jenkins_master.deploy(), and the return
\* when it fails.
DeployMaster(r) ==
    {LET d == deploy(r.world.master, ps, run)
         x == Entered([Ext(r, d.trace) EXCEPT !.world.master = d.master],
                      "deploy", d.ok)
     IN  IF d.ok THEN x ELSE Return(x) :
        ps \in DockerAnswers("ps", r.world.master), run \in MasterRunAnswers(r.world)}

\* The configuration step: jenkins_master.configure_initial_setup, and the
\* return when it fails.
ConfigureMaster(r, f) ==
    {LET x == Entered([Ext(r, c.trace) EXCEPT !.world.master = c.master],
                      "configure", c.ok)
     IN  IF ~c.returned THEN Stuck(x) ELSE IF c.ok THEN x ELSE Return(x) :
        c \in ConfigureInitialSetupOutcomes(r.world.master, f - Faults(r.trace))}

\* The extension step of setup: jenkins_master.install_plugins on the
\* required list; setup goes on whatever it reports.
InstallRequired(r, f) ==
    {LET x == Entered([Ext(r, p.trace) EXCEPT !.world.master = p.master,
                                              !.world.plugins = p.plugins],
                      "install_plugins", p.ok)
     IN  IF ~p.returned THEN Stuck(x) ELSE x :
        p \in InstallPluginsOutcomes(RequiredPlugins, r.world.master, r.world.plugins,
                                     f - Faults(r.trace))}

\* How docker images and docker build end, and whether the package's
\* Dockerfile is found.
ImageEnvs == [images : {"ok", "fail"}, dockerfile : {"ok", "fail"}, build : {"ok", "fail"}]

\* The worker image step: check the image and build it when it is not
\* reported.  fatal: a missing Dockerfile or a failed build ends the command
\* (agent deploy) or not (setup).
image_step(r, fatal, e) ==
    LET t1 == <<Req("docker images", e.images, NoArg)>>
        t2 == t1 \o <<Req("Dockerfile", e.dockerfile, NoArg)>>
        t3 == t2 \o <<Req("docker build", e.build, NoArg)>>
    IN  IF e.images = "ok" /\ "agent_image" \in r.world.resources THEN Ext(r, t1)
        ELSE IF e.dockerfile # "ok"
        THEN IF fatal THEN Return(Ext(r, t2)) ELSE Ext(r, t2)
        ELSE IF e.build # "ok"
        THEN IF fatal THEN Return(Ext(r, t3)) ELSE Ext(r, t3)
        ELSE [Ext(r, t3) EXCEPT !.world.resources = @ \cup {"agent_image"}]

EnsureImage(r, fatal) == {image_step(r, fatal, e) : e \in ImageEnvs}

\* A batch as the runtime and the coordinator of world w can answer it: a
\* worker's docker run needs the network and the image, and a coordinator
\* whose container is not up answers no request.
Answerable(o, w) ==
    \A k \in 1..Len(o.trace) :
        /\ o.trace[k].req = "docker run"
              /\ ~({"network", "agent_image"} \subseteq w.resources)
              => o.trace[k].status = "fail"
        /\ o.trace[k].req \in HttpRequests /\ w.master # "running"
              => o.trace[k].status = "exc"

\* The worker step: agent_manager.deploy_agents(count, cpu, memory).
DeployWorkers(r, count, base, f) ==
    {Entered([Ext(r, o.trace) EXCEPT !.world.creds = o.world.creds,
                                     !.world.nodes = o.world.nodes,
                                     !.world.containers = o.world.containers,
                                     !.results = o.results],
             "deploy_agents",
             \A k \in 1..Len(o.results) : o.results[k].error = None) :
        o \in {x \in deploy_agents(count, base,
                                    World(r.world.creds, r.world.nodes, r.world.containers),
                                    f - Faults(r.trace)) :
                  Answerable(x, r.world)}}

\* The setup command: every way it can end in world w, meeting at most f
\* failed requests.
setup(w, agents, base, f) ==
    LET s1 == {update_config(Ext(StartRun(w), <<Req("init_directories", "ok", NoArg)>>),
                             "agents", <<agents>>)}
        s2 == Within(Over(s1) \cup UNION {CheckDocker(r) : r \in Live(s1)}, f)
        s3 == Within(Over(s2) \cup UNION {CreateNetwork(r) : r \in Live(s2)}, f)
        s4 == Within(Over(s3) \cup UNION {CreateVolume(r) : r \in Live(s3)}, f)
        s5 == Within(Over(s4) \cup UNION {SetupKeys(r) : r \in Live(s4)}, f)
        s6 == Within(Over(s5) \cup UNION {DeployMaster(r) : r \in Live(s5)}, f)
        s7 == Within(Over(s6) \cup UNION {ConfigureMaster(r, f) : r \in Live(s6)}, f)
        s8 == Within(Over(s7) \cup UNION {InstallRequired(r, f) : r \in Live(s7)}, f)
        s9 == Within(Over(s8) \cup UNION {EnsureImage(r, FALSE) : r \in Live(s8)}, f)
        s10 == Within(Over(s9)
                      \cup UNION {DeployWorkers(r, agents, base, f) : r \in Live(s9)}, f)
    IN  Over(s10) \cup {Return(r) : r \in Live(s10)}

RECURSIVE ReportResults(_, _, _)
\* The result loop of agent deploy: the logs of every failed worker are
\* fetched, from result k on.
ReportResults(r, results, k) ==
    IF k > Len(results) THEN r
    ELSE ReportResults(IF results[k].error # None
                      THEN Ext(r, Tag(<<Req("get_agent_logs", "ok", NoArg)>>, k))
                      ELSE r,
                      results, k + 1)

\* The key check of agent deploy letting the command go on without keys.
RequireKeys_not_required(r) ==
    {Ext(r, <<Req("keys_exist", "ok", [exists |-> "ssh_keys" \in r.world.resources])>>)}

\* The key check of agent deploy: the command returns without the keys.
RequireKeys(r) ==
    {IF "ssh_keys" \in r.world.resources
     THEN Ext(r, <<Req("keys_exist", "ok", [exists |-> TRUE])>>)
     ELSE Return(Ext(r, <<Req("keys_exist", "ok", [exists |-> FALSE])>>))}

\* The agent deploy command: every way it can end.
agent_deploy(w, count, base, f) ==
    LET s1 == RequireKeys(StartRun(w))
        s2 == Within(Over(s1) \cup UNION {EnsureImage(r, TRUE) : r \in Live(s1)}, f)
        s3 == Within(Over(s2)
                     \cup UNION {DeployWorkers(r, count, base, f) : r \in Live(s2)}, f)
    IN  Over(s3) \cup {Return(ReportResults(r, r.results, 1)) : r \in Live(s3)}

\* SSHKeyManager.backup_keys: the pair is copied to the backup directory.
\* cp: how the copy ends.
backup_keys(r, cp) ==
    IF "ssh_keys" \notin r.world.resources
    THEN Entered(Ext(r, <<Req("keys_exist", "ok", [exists |-> FALSE])>>),
                 "backup_keys", FALSE)
    ELSE LET x == Ext(r, <<Req("keys_exist", "ok", [exists |-> TRUE]),
                           Req("copy keys to backup", cp, NoArg)>>)
         IN  IF cp = "ok"
             THEN Entered([x EXCEPT !.world.resources = @ \cup {"ssh_backup"}],
                          "backup_keys", TRUE)
             ELSE Entered(x, "backup_keys", FALSE)

\* SSHKeyManager.generate_key_pair.  gen: how ssh-keygen ends.
generate_key_pair(r, gen) ==
    LET x == Ext(r, <<Req("ssh-keygen", gen, NoArg)>>)
    IN  IF gen = "ok"
        THEN Entered([x EXCEPT !.world.resources = @ \cup {"ssh_keys"}],
                     "generate_key_pair", TRUE)
        ELSE Entered(x, "generate_key_pair", FALSE)

\* The ssh generate command: every way it can end.  With the keys in place
\* it returns at once without --force, and after the backup with --force;
\* the pair is generated only when no keys exist.
ssh_generate(w, force) ==
    LET exists == "ssh_keys" \in w.resources
        r1 == Ext(StartRun(w), <<Req("keys_exist", "ok", [exists |-> exists])>>)
        r2 == Ext(r1, <<Req("keys_exist", "ok", [exists |-> exists])>>)
    IN  IF exists /\ ~force THEN {Return(r1)}
        ELSE IF force /\ exists
            THEN {Return(backup_keys(r2, cp)) : cp \in {"ok", "fail"}}
        ELSE {Return(generate_key_pair(IF force THEN r2 ELSE r1, gen)) :
                 gen \in {"ok", "fail"}}

\* The attempts get_admin_password makes at reading the password file.
PasswordAttempts == 30

\* JenkinsMaster.get_admin_password, as the last step of master deploy.
\* found: the attempt at which the file is read, 0 for never.
GetAdminPassword(r) ==
    {LET t1 == <<Req("docker ps", ps, NoArg)>>
         t2 == t1 \o <<Req("docker exec cat", IF found = 0 THEN "fail" ELSE "ok",
                           [attempts |-> IF found = 0 THEN PasswordAttempts ELSE found])>>
     IN  IF is_running(r.world.master, ps) THEN Ext(r, t2) ELSE Ext(r, t1) :
        ps \in DockerAnswers("ps", r.world.master), found \in {0, 1, PasswordAttempts}}

\* The master deploy command: every way it can end.  port: a port option
\* was given; password: the admin password option was given.
master_deploy(w, port, password, f) ==
    LET s0 == IF port THEN update_config(StartRun(w), "port", "custom") ELSE StartRun(w)
        s1 == Within(CheckDocker(s0), f)
        s2 == Within(Over(s1) \cup UNION {CreateNetwork(r) : r \in Live(s1)}, f)
        s3 == Within(Over(s2) \cup UNION {CreateVolume(r) : r \in Live(s2)}, f)
        s4 == Within(Over(s3) \cup UNION {DeployMaster(r) : r \in Live(s3)}, f)
        s5 == IF password
              THEN Within(Over(s4) \cup UNION {ConfigureMaster(r, f) : r \in Live(s4)}, f)
              ELSE Within(Over(s4) \cup UNION {GetAdminPassword(r) : r \in Live(s4)}, f)
    IN  Over(s5) \cup {Return(r) : r \in Live(s5)}

---------------------------------------------------------------------------
(* Tunnel manager: core/ngrok.py *)

\* Tokens an operator may pass to authenticate.
AuthTokens == {"t1", "t2"}

\* The tunnel tool as a new installation finds it: no auth_token file, no
\* ngrok process.
NoNgrok == [auth_token_file |-> None, tunnel |-> "stopped"]

\* NgrokManager.is_authenticated: the auth_token file exists.
is_authenticated(n) == n.auth_token_file # None

\* NgrokManager.get_auth_token: the content of the file, or None.
get_auth_token(n) == n.auth_token_file

\* The answers authenticate can meet: the write of the token file, and the
\* `ngrok config add-authtoken` command ("exc": ngrok cannot be run).
AuthEnvs == [save : {"ok", "exc"}, add : {"ok", "fail", "exc"}]

NgrokReturn(ok, msg, trace, n) == [ok |-> ok, msg |-> msg, trace |-> trace, ngrok |-> n]

\* NgrokManager.authenticate: the token is saved first, then handed to the
\* tool.
authenticate(n, token, e) ==
    LET t1 == <<Req("write auth_token", e.save, [token |-> token])>>
        t2 == t1 \o <<Req("ngrok config add-authtoken", e.add, [token |-> token])>>
        saved == [n EXCEPT !.auth_token_file = token]
    IN  IF e.save = "exc"
        THEN NgrokReturn(FALSE, "Error during authentication", t1, n)
        ELSE IF e.add = "ok" THEN NgrokReturn(TRUE, "Authentication successful", t2, saved)
        ELSE IF e.add = "fail" THEN NgrokReturn(FALSE, "Authentication failed", t2, saved)
        ELSE NgrokReturn(FALSE, "Error during authentication", t2, saved)

\* NgrokManager.is_running as a request: the tool's API answers while an
\* ngrok process runs.
TunnelsApi(n) == Req("GET tunnels", "ok", [running |-> n.tunnel = "running"])

\* NgrokManager.stop_tunnel.  stops: the process is gone within the polls
\* that follow the kill.
stop_tunnel(n, stops) ==
    LET after == IF stops THEN [n EXCEPT !.tunnel = "stopped"] ELSE n
        t == <<Req("pkill ngrok", "ok", NoArg), TunnelsApi(after)>>
    IN  IF after.tunnel = "stopped"
        THEN NgrokReturn(TRUE, "Ngrok tunnel stopped successfully", t, after)
        ELSE NgrokReturn(FALSE, "Failed to stop ngrok tunnel", t, after)

\* What start_tunnel can meet: whether ngrok is installed, whether a running
\* tunnel has a public https URL, whether a kill stops the process, how
\* starting the process ends, whether the new tunnel has its URL within the
\* polls.
TunnelEnvs ==
    [installed : BOOLEAN, url : BOOLEAN, stops : BOOLEAN, popen : {"ok", "exc"},
     comes_up : BOOLEAN]

\* NgrokManager.start_tunnel.
start_tunnel(n, port, e) ==
    LET t1 == <<Req("ngrok version", IF e.installed THEN "ok" ELSE "fail", NoArg)>>
        t2 == t1 \o <<Req("is_authenticated", "ok", [exists |-> is_authenticated(n)])>>
        t3 == t2 \o <<TunnelsApi(n)>>
        s == stop_tunnel(n, e.stops)
        n4 == IF n.tunnel = "running" THEN s.ngrok ELSE n
        t4 == IF n.tunnel = "running" THEN t3 \o s.trace ELSE t3
        t5 == t4 \o <<Req("ngrok http", e.popen, [port |-> port])>>
    IN  IF ~e.installed THEN NgrokReturn(FALSE, "Ngrok is not installed", t1, n)
        ELSE IF ~is_authenticated(n)
            THEN NgrokReturn(FALSE, "Ngrok is not authenticated", t2, n)
        ELSE IF n.tunnel = "running" /\ e.url
            THEN NgrokReturn(TRUE, "Ngrok is already running", t3, n)
        ELSE IF e.popen = "exc"
            THEN NgrokReturn(FALSE, "Error starting ngrok tunnel", t5, n4)
        ELSE IF e.comes_up
            THEN NgrokReturn(TRUE, "Ngrok tunnel started", t5,
                             [n4 EXCEPT !.tunnel = "running"])
        ELSE NgrokReturn(FALSE, "Failed to start ngrok tunnel", t5, n4)

Init ==
    /\ base_ssh_port \in BasePorts
    /\ creds = {}
    /\ nodes = {}
    /\ containers = [i \in 1..MaxWork |-> "absent"]
    /\ master \in {"absent", "running", "exited"}
    /\ plugins \in SUBSET PluginNames
    /\ last = NoCall
    /\ prev = NoCall
    /\ work = 0
    /\ faults = 0
    /\ resources \in ResourcesWith(master)
    /\ config_file = NoConfigFile
    /\ self_crumb = NoCrumb
    /\ ngrok = NoNgrok

\* A call of cost n that met k failed requests is made and recorded.
Called(n, k, record) ==
    /\ faults + k <= MaxFaults
    /\ faults' = faults + k
    /\ work' = work + n
    /\ last' = record
    /\ prev' = Summary(last)

\* agent_configurator.configure_credentials(private_key_path)
ConfigureCredentials ==
    /\ work < MaxWork
    /\ \E r \in CredOutcomes(creds) :
        /\ Called(1, Faults(r.trace), [op |-> "configure_credentials", ok |-> r.ok, msg |-> r.msg,
                      trace |-> r.trace, before |-> creds])
        /\ creds' = r.creds
        /\ UNCHANGED <<ngrok, self_crumb, resources, config_file, base_ssh_port, nodes, containers, master, plugins>>

\* agent_manager.deploy_agents(count, cpu, memory)
DeployAgents ==
    /\ work < MaxWork
    /\ \E count \in 0..(MaxWork - work) :
        \E o \in deploy_agents(count, base_ssh_port, World(creds, nodes, containers),
                               MaxFaults - faults) :
            /\ Called(IF count = 0 THEN 1 ELSE count, Faults(o.trace),
                      [op |-> "deploy_agents", count |-> count,
                       results |-> o.results, trace |-> o.trace, before |-> creds,
                       containers_before |-> containers])
            /\ creds' = o.world.creds
            /\ nodes' = o.world.nodes
            /\ containers' = o.world.containers
            /\ UNCHANGED <<ngrok, self_crumb, resources, config_file, base_ssh_port, master, plugins>>

\* jenkins_master.deploy()
Deploy ==
    /\ work < MaxWork
    /\ \E ps \in DockerAnswers("ps", master), run \in DockerAnswers("run", master) :
        LET r == deploy(master, ps, run) IN
        /\ Called(1, Faults(r.trace), [op |-> "deploy", ok |-> r.ok, msg |-> r.msg, trace |-> r.trace,
                      before |-> master, after |-> r.master])
        /\ master' = r.master
        /\ UNCHANGED <<ngrok, self_crumb, resources, config_file, base_ssh_port, creds, nodes, containers, plugins>>

\* jenkins_master.restart()
Restart ==
    /\ work < MaxWork
    /\ \E r \in RestartOutcomes(master) :
        /\ Called(1, Faults(r.trace), [op |-> "restart", ok |-> r.ok, msg |-> r.msg, trace |-> r.trace,
                      before |-> master, after |-> r.master])
        /\ master' = r.master
        /\ UNCHANGED <<ngrok, self_crumb, resources, config_file, base_ssh_port, creds, nodes, containers, plugins>>

\* jenkins_master.wait_for_jenkins_ready(timeout)
WaitForReady ==
    /\ work < MaxWork
    /\ \E timeout \in Timeouts, b \in WaitBehaviours(master, WaitReadyTimes) :
        LET r == wait_for_jenkins_ready(timeout, b) IN
        /\ Called(1, IF r.ready THEN 0 ELSE 1, [op |-> "wait_for_jenkins_ready", timeout |-> timeout,
                      coordinator |-> b, returned |-> r.returned, ready |-> r.ready,
                      raised |-> r.raised,
                      elapsed |-> r.elapsed, probes |-> r.probes])
        /\ UNCHANGED <<ngrok, self_crumb, resources, config_file, base_ssh_port, creds, nodes, containers, master, plugins>>

\* jenkins_master.install_plugins(admin_user, admin_password, plugins)
InstallPlugins ==
    /\ work < MaxWork
    /\ \E plugs \in PluginLists(MaxWork - work - 1) :
        \E r \in InstallPluginsOutcomes(plugs, master, plugins, MaxFaults - faults) :
            /\ Called(1 + Len(plugs), Faults(r.trace),
                      [op |-> "install_plugins", requested |-> plugs,
                       returned |-> r.returned, ok |-> r.ok, msg |-> r.msg,
                       installed |-> r.installed, failed |-> r.failed,
                       trace |-> r.trace, before |-> plugins])
            /\ master' = r.master
            /\ plugins' = r.plugins
            /\ UNCHANGED <<ngrok, self_crumb, resources, config_file, base_ssh_port, creds, nodes, containers>>

\* agent_manager.remove_agent(index)
RemoveAgent ==
    /\ work < MaxWork
    /\ \E index \in DOMAIN containers :
        \E r \in RemoveAgentOutcomes(index, containers) :
            /\ Called(1, Faults(r.trace),
                      [op |-> "remove_agent", index |-> index, ok |-> r.ok, msg |-> r.msg,
                       trace |-> r.trace, before |-> containers])
            /\ containers' = r.containers
            /\ UNCHANGED <<ngrok, self_crumb, resources, config_file, base_ssh_port, creds, nodes, master, plugins>>

\* agent_manager.remove_all_agents()
RemoveAllAgents ==
    /\ work < MaxWork
    /\ \E r \in remove_all_agents(containers, MaxFaults - faults) :
        /\ Called(1, Faults(r.trace),
                  [op |-> "remove_all_agents", agents |-> r.agents, results |-> r.results,
                   trace |-> r.trace, before |-> containers])
        /\ containers' = r.containers
        /\ UNCHANGED <<ngrok, self_crumb, resources, config_file, base_ssh_port, creds, nodes, master, plugins>>

\* jenkins_master.configure_initial_setup(admin_user, admin_password)
ConfigureInitialSetup ==
    /\ work < MaxWork
    /\ \E r \in ConfigureInitialSetupOutcomes(master, MaxFaults - faults) :
        /\ Called(1, Faults(r.trace),
                  [op |-> "configure_initial_setup", returned |-> r.returned, ok |-> r.ok,
                   msg |-> r.msg, trace |-> r.trace, before |-> master, after |-> r.master])
        /\ master' = r.master
        /\ UNCHANGED <<ngrok, self_crumb, resources, config_file, base_ssh_port, creds, nodes, containers,
                       plugins>>

\* What a command leaves in the state.
CommandDone(r) ==
    /\ master' = r.world.master
    /\ plugins' = r.world.plugins
    /\ creds' = r.world.creds
    /\ nodes' = r.world.nodes
    /\ containers' = r.world.containers
    /\ resources' = r.world.resources
    /\ config_file' = r.world.config_file
    /\ UNCHANGED <<ngrok, self_crumb, base_ssh_port>>

\* The world a command starts in.
Now == CmdWorld(master, plugins, creds, nodes, containers, resources, config_file)

CommandRecord(op, arg, r) ==
    [op |-> op, arg |-> arg, returned |-> r.returned, steps |-> r.steps,
     results |-> r.results, trace |-> r.trace, config |-> r.config, before |-> Now]

\* jenkins-local-init setup --agents n
Setup ==
    /\ work + 1 < MaxWork
    /\ \E agents \in 0..(MaxWork - work - 2) :
        \E r \in setup(Now, agents, base_ssh_port, MaxFaults - faults) :
            /\ Called(2 + agents, Faults(r.trace), CommandRecord("setup", agents, r))
            /\ CommandDone(r)

\* jenkins-local-init agent deploy --count n
AgentDeploy ==
    /\ work < MaxWork
    /\ \E count \in 0..(MaxWork - work - 1) :
        \E r \in agent_deploy(Now, count, base_ssh_port, MaxFaults - faults) :
            /\ Called(1 + count, Faults(r.trace),
                      CommandRecord("agent deploy", count, r))
            /\ CommandDone(r)

\* jenkins-local-init master deploy [--port p] [--admin-password pw]
MasterDeploy ==
    /\ work + 1 < MaxWork
    /\ \E port \in BOOLEAN, password \in BOOLEAN :
        \E r \in master_deploy(Now, port, password, MaxFaults - faults) :
            /\ Called(2, Faults(r.trace),
                      CommandRecord("master deploy",
                                    [port |-> port, password |-> password], r))
            /\ CommandDone(r)

\* jenkins-local-init ssh generate [--force]
SshGenerate ==
    /\ work < MaxWork
    /\ \E force \in BOOLEAN :
        \E r \in Within(ssh_generate(Now, force), MaxFaults - faults) :
            /\ Called(1, Faults(r.trace), CommandRecord("ssh generate", force, r))
            /\ CommandDone(r)

\* agent_configurator.configure_agent(agent_name, host, port), with the
\* arguments deploy_agent passes for a worker index.
ConfigureAgent ==
    /\ work < MaxWork
    /\ \E index \in 1..2 :
        \E r \in NodeOutcomesWith(_get_agent_name(index), _get_agent_name(index),
                                  InternalSshPort, nodes, SessionIds) :
            /\ Called(1, Faults(r.trace),
                      [op |-> "configure_agent", ok |-> r.ok, msg |-> r.msg,
                       trace |-> r.trace, name |-> _get_agent_name(index),
                       before |-> nodes])
            /\ nodes' = r.nodes
            /\ UNCHANGED <<ngrok, self_crumb, resources, config_file, base_ssh_port, creds,
                           containers, master, plugins>>

\* agent_configurator._get_headers()
GetHeaders ==
    /\ work < MaxWork
    /\ \E r \in GetHeadersOutcomes(self_crumb) :
        /\ Called(1, Faults(r.trace),
                  [op |-> "_get_headers", headers |-> r.headers, trace |-> r.trace,
                   before |-> self_crumb])
        /\ self_crumb' = r.crumb
        /\ UNCHANGED <<ngrok, resources, config_file, base_ssh_port, creds, nodes, containers,
                       master, plugins>>

\* docker_manager.create_network(name) / docker_manager.create_volume(name)
DockerCreate ==
    /\ work < MaxWork
    /\ \E kind \in CoordinatorResources, ls \in {"ok", "fail"}, create \in {"ok", "fail"} :
        LET c == create_resource(kind, resources, ls, create) IN
        /\ Called(1, Faults(c.trace),
                  [op |-> "create_" \o kind, kind |-> kind, ok |-> c.ok,
                   trace |-> c.trace, before |-> resources])
        /\ resources' = c.resources
        /\ UNCHANGED <<ngrok, self_crumb, config_file, base_ssh_port, creds, nodes, containers,
                       master, plugins>>

NextDocker == DockerCreate

\* ngrok_manager.authenticate(token)
Authenticate ==
    /\ work < MaxWork
    /\ \E token \in AuthTokens, e \in AuthEnvs :
        LET r == authenticate(ngrok, token, e) IN
        /\ Called(1, Faults(r.trace),
                  [op |-> "authenticate", token |-> token, ok |-> r.ok, msg |-> r.msg,
                   trace |-> r.trace, before |-> ngrok])
        /\ ngrok' = r.ngrok
        /\ UNCHANGED <<self_crumb, resources, config_file, base_ssh_port, creds, nodes,
                       containers, master, plugins>>

\* ngrok_manager.start_tunnel(port)
StartTunnel ==
    /\ work < MaxWork
    /\ \E e \in TunnelEnvs :
        LET r == start_tunnel(ngrok, "8080", e) IN
        /\ Called(1, Faults(r.trace),
                  [op |-> "start_tunnel", ok |-> r.ok, msg |-> r.msg,
                   trace |-> r.trace, before |-> ngrok])
        /\ ngrok' = r.ngrok
        /\ UNCHANGED <<self_crumb, resources, config_file, base_ssh_port, creds, nodes,
                       containers, master, plugins>>

\* ngrok_manager.stop_tunnel()
StopTunnel ==
    /\ work < MaxWork
    /\ \E stops \in BOOLEAN :
        LET r == stop_tunnel(ngrok, stops) IN
        /\ Called(1, IF r.ok THEN 0 ELSE 1,
                  [op |-> "stop_tunnel", ok |-> r.ok, msg |-> r.msg,
                   trace |-> r.trace, before |-> ngrok])
        /\ ngrok' = r.ngrok
        /\ UNCHANGED <<self_crumb, resources, config_file, base_ssh_port, creds, nodes,
                       containers, master, plugins>>

NextNgrok == Authenticate \/ StartTunnel \/ StopTunnel

NextAgents == ConfigureCredentials \/ DeployAgents

NextClient == ConfigureCredentials \/ ConfigureAgent \/ GetHeaders

NextRemoval == RemoveAgent \/ RemoveAllAgents

NextCommands == Setup \/ AgentDeploy \/ MasterDeploy \/ SshGenerate

NextKeys == Setup \/ AgentDeploy

NextMaster == Deploy \/ Restart \/ WaitForReady \/ InstallPlugins \/ ConfigureInitialSetup

Next ==
    \/ NextAgents \/ NextClient \/ NextMaster \/ NextRemoval \/ NextCommands
    \/ NextDocker \/ NextNgrok

\* The whole program.
Spec == Init /\ [][Next]_vars

\* The control-plane client and the worker loop, the coordinator's own
\* container and extensions left alone.
InitAgents == Init /\ master = "running" /\ plugins = {} /\ resources = Resources

SpecAgents == InitAgents /\ [][NextAgents]_vars

\* The control-plane client alone, on a running coordinator.
SpecClient == InitAgents /\ [][NextClient]_vars

\* The runtime manager's network and volume calls, before any container
\* exists, with either resource in place or not.
InitDocker ==
    /\ Init
    /\ base_ssh_port = DefaultBaseSshPort
    /\ master = "absent"
    /\ plugins = {}
    /\ resources \subseteq CoordinatorResources

SpecDocker == InitDocker /\ [][NextDocker]_vars

\* The tunnel manager, beside a running coordinator.
SpecNgrok == InitAgents /\ [][NextNgrok]_vars

\* The coordinator lifecycle manager, on one configuration.
InitMaster ==
    /\ Init
    /\ base_ssh_port = DefaultBaseSshPort
    /\ resources = IF master = "absent" THEN {} ELSE CoordinatorResources

SpecMaster == InitMaster /\ [][NextMaster]_vars

\* Worker removal, on what an invocation can find in the runtime: containers
\* left by earlier invocations, up or stopped.
InitRemoval ==
    /\ base_ssh_port = DefaultBaseSshPort
    /\ creds = {}
    /\ nodes = {}
    /\ containers \in [1..MaxWork -> ContainerStates]
    /\ master = "running"
    /\ plugins = {}
    /\ last = NoCall
    /\ prev = NoCall
    /\ work = 0
    /\ faults = 0
    /\ resources = Resources
    /\ config_file = NoConfigFile
    /\ self_crumb = NoCrumb
    /\ ngrok = NoNgrok

SpecRemoval == InitRemoval /\ [][NextRemoval]_vars

\* The commands, on what an invocation can find: no worker yet, the
\* coordinator in any state, and nothing, the coordinator's resources or
\* every resource in place.
InitCommands ==
    /\ Init
    /\ base_ssh_port = DefaultBaseSshPort
    /\ plugins = {}
    /\ resources \in {{}, CoordinatorResources, Resources}

SpecCommands == InitCommands /\ [][NextCommands]_vars

\* The two commands that deploy workers, on a running coordinator, without
\* and with the key pair.
InitKeys ==
    /\ InitCommands
    /\ master = "running"
    /\ resources \in {CoordinatorResources, Resources}

SpecKeys == InitKeys /\ [][NextKeys]_vars

---------------------------------------------------------------------------
(* Properties *)

\* The requests that go to the coordinator's control plane on behalf of a
\* worker: credential registration and node registration.
ControlPlaneRequests == {"list", "crumb", "createCredentials", "cookie", "doCreateItem"}

\* The positions in the last call's trace of worker i's requests of the
\* given kinds.
WorkerRequests(i, kinds) ==
    {k \in 1..Len(last.trace) : last.trace[k].who = i /\ last.trace[k].req \in kinds}

\* The workers of the last batch whose docker run was refused or failed.
ContainerFailed ==
    {i \in 1..last.count :
        \E k \in WorkerRequests(i, {"docker run"}) : last.trace[k].status # "ok"}

\* The entries of the last batch's result list that name worker i.
ResultsOf(i) ==
    {k \in 1..Len(last.results) : last.results[k].agent_name = <<base_name, i>>}

\* C1: in every batch, the worker of index i is given the external port
\* base port + i - 1, in its result and in its docker run request, and the
\* ports of the batch's results are pairwise distinct.
C1_PortAssignment ==
    last.op = "deploy_agents" /\ last.count >= 1 =>
        /\ \A i \in 1..last.count :
              /\ \A k \in ResultsOf(i) :
                    last.results[k].ssh_port = base_ssh_port + i - 1
              /\ \A k \in WorkerRequests(i, {"docker run"}) :
                    last.trace[k].arg.port = base_ssh_port + i - 1
        /\ \A j, k \in 1..Len(last.results) :
              j # k => last.results[j].ssh_port # last.results[k].ssh_port

C1_Witness ==
    /\ last.op = "deploy_agents"
    /\ last.count = 3
    /\ Len(last.results) = 3
    /\ base_ssh_port # DefaultBaseSshPort

\* C2: a worker whose container deployment failed has no control-plane
\* request made for it, its result does not show a successful registration,
\* and its result's error is not null.
C2_FailedContainerNotRegistered ==
    last.op = "deploy_agents" =>
        \A i \in ContainerFailed :
            /\ WorkerRequests(i, ControlPlaneRequests) = {}
            /\ ResultsOf(i) # {}
            /\ \A k \in ResultsOf(i) :
                  /\ last.results[k].container_status = "failed"
                  /\ last.results[k].jenkins_status # "success"
                  /\ last.results[k].error # None

C2_Witness ==
    /\ last.op = "deploy_agents"
    /\ ContainerFailed # {}
    /\ \E i \in 1..last.count : i \notin ContainerFailed

\* C3: a batch of count >= 1 workers returns exactly count results, the
\* k-th for index k; every index has its container deployment attempted
\* whatever failed before it, and every worker whose container started goes
\* on to a control-plane request.
C3_OneResultPerIndex ==
    last.op = "deploy_agents" /\ last.count >= 1 =>
        /\ Len(last.results) = last.count
        /\ \A i \in 1..last.count :
              /\ last.results[i].agent_name = <<base_name, i>>
              /\ WorkerRequests(i, {"docker run"}) # {}
              /\ i \notin ContainerFailed => WorkerRequests(i, ControlPlaneRequests) # {}
              /\ i \in ContainerFailed => last.results[i].container_status = "failed"

C3_Witness ==
    /\ last.op = "deploy_agents"
    /\ last.count = 3
    /\ ContainerFailed = {2}
    /\ WorkerRequests(1, {"doCreateItem"}) # {}
    /\ WorkerRequests(3, {"doCreateItem"}) # {}

\* C4: two configure_credentials calls in sequence on a coordinator that
\* answers every request successfully both return success, and the second
\* submits no credential-creation request.
C4_CredentialIdempotent ==
    /\ prev.op = "configure_credentials" /\ last.op = "configure_credentials"
    /\ prev.faults = 0 /\ Faults(last.trace) = 0
    => /\ prev.ok
       /\ last.ok
       /\ Sent(last.trace, "createCredentials") = {}

C4_Witness ==
    /\ prev.op = "configure_credentials" /\ last.op = "configure_credentials"
    /\ prev.faults = 0 /\ Faults(last.trace) = 0
    /\ prev.creates = 1
    /\ last.ok

\* C5: a credential-creation request is never submitted while an entry with
\* the fixed identifier exists in the coordinator, also when the listing
\* query fails.
C5_NoCreateWhileExists ==
    last.op \in {"configure_credentials", "deploy_agents"} =>
        \A k \in Sent(last.trace, "createCredentials") : ~last.trace[k].arg.existed

\* The container of a deploy call was reported as up: docker ps succeeded
\* on a running container.
ReportedUp(l) == l.trace[1].status = "ok" /\ l.before = "running"

\* C6 (first part, and the amended consequence): deploy() on a container
\* reported as up returns success, issues no run request and leaves the
\* container as it was; deploy(); deploy() issues at most one run request
\* whenever the second deploy finds the container reported as up.
C6_DeployIdempotentWhenUp ==
    last.op = "deploy" =>
        /\ ReportedUp(last) =>
              /\ last.ok
              /\ Sent(last.trace, "docker run") = {}
              /\ last.after = last.before
        /\ prev.op = "deploy" /\ ReportedUp(last) =>
              prev.runs + Cardinality(Sent(last.trace, "docker run")) <= 1

C6_Witness ==
    /\ prev.op = "deploy" /\ prev.runs = 1 /\ prev.ok
    /\ last.op = "deploy" /\ ReportedUp(last)

\* C6 as stated: deploy() on a container reported as up returns success
\* with no run request and no change, and any deploy(); deploy() issues at
\* most one run request.
C6_AtMostOneRun ==
    last.op = "deploy" =>
        /\ ReportedUp(last) =>
              /\ last.ok
              /\ Sent(last.trace, "docker run") = {}
              /\ last.after = last.before
        /\ prev.op = "deploy" =>
              prev.runs + Cardinality(Sent(last.trace, "docker run")) <= 1

\* C7: a wait on a coordinator that never becomes reachable returns, with
\* false, once the deadline has elapsed.
C7_WaitTerminates ==
    last.op = "wait_for_jenkins_ready" /\ ~last.coordinator.reachable =>
        /\ last.returned
        /\ ~last.ready
        /\ last.elapsed >= last.timeout

\* An install_plugins call reached its per-name loop: the first wait found
\* the coordinator ready and the crumb was obtained.
ReachedLoop(l) ==
    /\ Len(l.trace) >= 2
    /\ l.trace[1].status = "ok"
    /\ l.trace[2].status = "ok"

\* C8: an install_plugins call that reaches the per-name loop restarts the
\* coordinator exactly once, whatever the list and the outcomes: one stop
\* request, issued after the last listing or install request, and at most
\* one start request, after it.
C8_OneRestartAfterLoop ==
    last.op = "install_plugins" /\ ReachedLoop(last) =>
        /\ Cardinality(Sent(last.trace, "docker stop")) = 1
        /\ Cardinality(Sent(last.trace, "docker start")) <= 1
        /\ \A s \in Sent(last.trace, "docker stop") :
              /\ \A k \in Sent(last.trace, "pluginInfo")
                          \cup Sent(last.trace, "installNecessaryPlugins") : k < s
              /\ \A k \in Sent(last.trace, "docker start") : s < k

C8_Witness ==
    /\ last.op = "install_plugins"
    /\ last.requested = <<"a", "b">>
    /\ last.installed = <<Entry("a", "")>>
    /\ last.failed = <<Entry("b", "HTTP")>>
    /\ Sent(last.trace, "installNecessaryPlugins") # {}
    /\ Sent(last.trace, "docker start") # {}

\* C9: when install_plugins returns with a non-empty failed list, what it
\* returns names the installed extensions as well as the failed ones.
C9_ReportsInstalledAndFailed ==
    last.op = "install_plugins" /\ last.returned /\ last.failed # <<>> =>
        /\ Range(last.failed) \subseteq Range(last.msg.names)
        /\ Range(last.installed) \subseteq Range(last.msg.names)

\* The readiness wait after the restart did not find the coordinator ready.
PostRestartWaitFailed(l) ==
    \E k \in Sent(l.trace, "wait") : k > 1 /\ l.trace[k].status # "ok"

\* C10 as stated: install_plugins returns failure exactly when the
\* post-restart readiness check fails or the failed list is non-empty.
C10_FailsOnlyInTwoCases ==
    last.op = "install_plugins" /\ last.returned =>
        (~last.ok <=> (PostRestartWaitFailed(last) \/ last.failed # <<>>))

\* C10 (amended): install_plugins returns failure exactly when the initial
\* readiness check fails, the crumb cannot be obtained, the post-restart
\* readiness check fails, or the failed list is non-empty.
C10_FailsOnlyInFourCases ==
    last.op = "install_plugins" /\ last.returned =>
        (~last.ok <=> \/ last.trace[1].status # "ok"
                      \/ \E k \in Sent(last.trace, "crumb") : last.trace[k].status # "ok"
                      \/ PostRestartWaitFailed(last)
                      \/ last.failed # <<>>)

C10_Witness ==
    /\ last.op = "install_plugins"
    /\ last.returned
    /\ ~last.ok
    /\ \E k \in Sent(last.trace, "crumb") : last.trace[k].status # "ok"

\* The requests of the last call's trace of the given kind that failed.
FailedRequests(kind) ==
    {k \in Sent(last.trace, kind) : last.trace[k].status # "ok"}

\* C11 as stated: remove_agent on a container that exists and is stopped
\* removes it whether or not the stop command succeeds, unless the remove
\* command itself fails.
C11_RemoveStoppedNeedsNoStop ==
    /\ last.op = "remove_agent"
    /\ last.before[last.index] = "exited"
    /\ FailedRequests("docker rm") = {}
    => /\ last.ok
       /\ containers[last.index] = "absent"

\* C11 (amended): remove_agent on a container that exists and is stopped
\* succeeds and removes it when the runtime accepts both commands, the stop
\* of the stopped container included; when the stop command fails the
\* container is left in place although it is stopped.
C11_RemoveStopped ==
    last.op = "remove_agent" /\ last.before[last.index] = "exited" =>
        /\ Faults(last.trace) = 0 =>
              /\ last.ok
              /\ containers[last.index] = "absent"
              /\ Sent(last.trace, "docker rm") # {}
        /\ FailedRequests("docker stop") # {} =>
              /\ ~last.ok
              /\ containers[last.index] = "exited"

C11_Witness ==
    /\ last.op = "remove_agent"
    /\ last.before[last.index] = "exited"
    /\ last.ok
    /\ containers[last.index] = "absent"

\* C12: remove_agent issues the stop command first and the remove command,
\* if any, after it; when the stop command fails it returns failure, issues
\* no remove command and leaves the container as it was.
C12_StopBeforeRemove ==
    last.op = "remove_agent" =>
        /\ last.trace[1].req = "docker stop"
        /\ \A k \in Sent(last.trace, "docker rm") : k > 1
        /\ FailedRequests("docker stop") # {} =>
              /\ ~last.ok
              /\ Sent(last.trace, "docker rm") = {}
              /\ containers[last.index] = last.before[last.index]

C12_Witness ==
    /\ last.op = "remove_agent"
    /\ last.before[last.index] = "running"
    /\ FailedRequests("docker stop") # {}
    /\ containers[last.index] = "running"

\* C13: remove_all_agents issues one force-remove per listed container, in
\* the listing's order, and returns one outcome per listed container, the
\* k-th being the k-th removal's; a failed removal does not stop the later
\* ones, and a container that was not listed is left as it was.
C13_OneOutcomePerDiscovered ==
    last.op = "remove_all_agents" =>
        /\ Len(last.results) = Len(last.agents)
        /\ Len(last.trace) = 1 + Len(last.agents)
        /\ \A k \in 1..Len(last.agents) :
              /\ last.trace[k + 1].req = "docker rm -f"
              /\ last.trace[k + 1].arg.id = last.agents[k].id
              /\ last.results[k] = (last.trace[k + 1].status = "ok")
        /\ \A i \in DOMAIN containers :
              (\A k \in 1..Len(last.agents) : last.agents[k].id # i)
                  => containers[i] = last.before[i]

C13_Witness ==
    /\ last.op = "remove_all_agents"
    /\ Len(last.agents) = 3
    /\ last.results = <<FALSE, TRUE, TRUE>>
    /\ last.agents[1].id = 2
    /\ \E i \in DOMAIN containers : containers[i] # "absent"

\* C14: a node-registration request of a batch is submitted only while the
\* credential entry exists in the coordinator.  The store changes within a
\* batch only in worker 1's credential step, which precedes every node
\* registration of the batch, so the store a registration meets is the store
\* the batch leaves.
C14_CredentialBeforeRegistration ==
    last.op = "deploy_agents" /\ Sent(last.trace, "doCreateItem") # {} =>
        CredentialId \in creds

\* The workers of the last batch whose container deployed successfully.
ContainerStarted == {i \in 1..last.count : i \notin ContainerFailed}

\* C15: in every batch in which some container deployed successfully, the
\* first such worker queries the credential listing before its node
\* registration is started.
C15_FirstStartedRegistersCredential ==
    last.op = "deploy_agents" /\ ContainerStarted # {} =>
        LET first == CHOOSE i \in ContainerStarted : \A j \in ContainerStarted : i <= j
        IN  /\ WorkerRequests(first, {"list"}) # {}
            /\ \A k \in WorkerRequests(first, {"list"}) :
                  \A c \in WorkerRequests(first, {"cookie"}) : k < c

\* The requests of the last batch made for worker i, in issue order.
WorkerTrace(i) == SelectSeq(last.trace, LAMBDA r : r.who = i)

\* The requests of worker i's credential step: those after its two
\* container commands and before its node registration.
CredentialTrace(i) ==
    LET t == WorkerTrace(i)
        cookies == {k \in 1..Len(t) : t[k].req = "cookie"}
        end == IF cookies = {} THEN Len(t) ELSE (CHOOSE k \in cookies : TRUE) - 1
    IN  SubSeq(t, 3, end)

\* The answers a credential step met, read from its requests t; a request
\* that was not issued counts as answered well.
AnswersOf(t) ==
    [list1 |-> t[1].status,
     key |-> IF Len(t) >= 2 THEN t[2].status ELSE "ok",
     crumb |-> IF Len(t) >= 3 THEN t[3].status ELSE "ok",
     post |-> IF Len(t) >= 4 THEN t[4].status ELSE "ok",
     applied |-> IF Len(t) >= 4 THEN t[4].arg.applied ELSE TRUE,
     list2 |-> IF Len(t) >= 5 THEN t[5].status ELSE "ok"]

\* Worker i's credential step was run and returned failure: its requests
\* are those of a failing configure_credentials call on the store the batch
\* started from.
CredentialStepFailed(i) ==
    /\ CredentialTrace(i) # <<>>
    /\ LET r == configure_credentials(last.before, AnswersOf(CredentialTrace(i)))
       IN  ~r.ok /\ Tag(r.trace, i) = CredentialTrace(i)

\* C16: a worker whose credential step failed has its container reported
\* as deployed, a non-null error and no node-registration request; no other
\* worker's result carries the credential error, and every later index
\* still has its container deployment attempted.
C16_CredentialFailureIsLocal ==
    last.op = "deploy_agents" =>
        \A i \in 1..last.count : CredentialStepFailed(i) =>
            /\ last.results[i].container_status = "success"
            /\ last.results[i].jenkins_status # "success"
            /\ last.results[i].error = "Failed to configure SSH credentials"
            /\ WorkerRequests(i, {"cookie", "doCreateItem"}) = {}
            /\ \A j \in 1..last.count : j # i =>
                  last.results[j].error # "Failed to configure SSH credentials"
            /\ \A j \in (i + 1)..last.count :
                  WorkerRequests(j, {"docker run"}) # {}

C16_Witness ==
    /\ last.op = "deploy_agents"
    /\ last.count = 2
    /\ CredentialStepFailed(1)
    /\ \E k \in WorkerRequests(2, {"doCreateItem"}) : last.trace[k].status = "ok"
    /\ last.results[2].error = None

\* The commands configure_initial_setup issues on the runtime.
SetupCommands == {"docker exec mkdir", "docker cp", "docker stop", "docker start"}

\* C20: configure_initial_setup returns failure when its readiness wait
\* did not find the coordinator ready, having issued no runtime command; and
\* it returns failure when the script copy failed, having issued no stop or
\* start command.
C20_SetupFailsWithoutCommands ==
    last.op = "configure_initial_setup" /\ last.returned =>
        /\ last.trace[1].req = "wait"
        /\ last.trace[1].status # "ok" =>
              /\ ~last.ok
              /\ \A k \in 1..Len(last.trace) : last.trace[k].req \notin SetupCommands
              /\ last.after = last.before
        /\ FailedRequests("docker cp") # {} =>
              /\ ~last.ok
              /\ Sent(last.trace, "docker stop") = {}
              /\ Sent(last.trace, "docker start") = {}
              /\ last.after = last.before

C20_Witness ==
    /\ last.op = "configure_initial_setup"
    /\ last.returned
    /\ FailedRequests("docker cp") # {}
    /\ Sent(last.trace, "docker exec mkdir") # {}

\* The positions in the last command's trace of the credential and node
\* registration requests made for its workers.
RegistrationRequests ==
    {k \in 1..Len(last.trace) :
        last.trace[k].who # 0 /\ last.trace[k].req \in ControlPlaneRequests}

\* The readiness waits of the last command issued before position k.
WaitsBefore(k) == {j \in Sent(last.trace, "wait") : j < k}

\* C17: in every run of setup and of agent deploy, a credential or node
\* registration request is sent only if the most recent readiness wait
\* before it, if there was one, found the coordinator ready.
C17_NoRegistrationAfterTimeout ==
    last.op \in {"setup", "agent deploy"} =>
        \A k \in RegistrationRequests :
            \A j \in WaitsBefore(k) :
                (\A i \in WaitsBefore(k) : i <= j) => last.trace[j].status = "ok"

\* C18: in setup, the steps coordinator deploy, configure, install
\* extensions and provision workers are entered in this order, each only if
\* the step before it reported success.
C18_SequentialGates ==
    last.op = "setup" =>
        /\ \A k \in 1..Len(last.steps) :
              last.steps[k].step =
                  <<"deploy", "configure", "install_plugins", "deploy_agents">>[k]
        /\ \A k \in 2..Len(last.steps) : last.steps[k - 1].ok

\* The commands on the runtime that create or change a network, a volume
\* or a container.
EngineCommands ==
    {"docker network ls", "docker network create", "docker volume ls",
     "docker volume create", "docker run", "docker ps", "docker stop", "docker start",
     "docker exec mkdir", "docker cp", "docker exec cat", "docker images", "docker build"}

\* C19: when the engine check of setup or of master deploy fails, the
\* command has issued no network, volume or container command and has left
\* the persisted configuration as it was.
C19_AbortBeforeStateChange ==
    /\ last.op \in {"setup", "master deploy"}
    /\ FailedRequests("docker info") # {}
    => /\ \A k \in 1..Len(last.trace) : last.trace[k].req \notin EngineCommands
       /\ config_file = last.before.config_file


\* C21: restart issues the stop command first and the start command only
\* after a successful stop; it succeeds exactly when both succeeded, and a
\* failure names the half that failed, with a message of its own.
C21_RestartStopThenStart ==
    last.op = "restart" =>
        LET t == last.trace IN
        /\ t[1].req = "docker stop"
        /\ Len(t) = IF t[1].status = "ok" THEN 2 ELSE 1
        /\ Len(t) = 2 => t[2].req = "docker start"
        /\ last.ok <=> (Len(t) = 2 /\ \A k \in 1..2 : t[k].status = "ok")
        /\ t[1].status # "ok" => last.msg = "Failed to stop container"
        /\ (Len(t) = 2 /\ t[2].status # "ok") => last.msg = "Failed to start container"
        /\ last.ok => last.msg \notin {"Failed to stop container",
                                        "Failed to start container"}

C21_Witness ==
    /\ last.op = "restart"
    /\ prev.op = "restart"
    /\ Len(last.trace) = 2
    /\ last.trace[2].status # "ok"
    /\ ~last.ok
    /\ last.before = "exited"


\* C22: configure_agent called twice with the same name succeeds both
\* times and leaves the node registered once: the second call, whose cookie
\* and crumb requests are answered, finds the node and submits no creation
\* request for it.
C22_RegisterNodeIdempotent ==
    /\ last.op = "configure_agent" /\ prev.op = "configure_agent"
    /\ prev.name = last.name /\ prev.ok
    /\ \A k \in Sent(last.trace, "cookie") \cup Sent(last.trace, "crumb") :
          last.trace[k].status = "ok"
    => /\ last.ok
       /\ Sent(last.trace, "doCreateItem") = {}
       /\ last.name \in nodes


\* C23: when configure_credentials returns success the entry is in the
\* coordinator's listing, and a call that submitted a creation request
\* owes its success to a listing query answered after it.
C23_SuccessMeansListed ==
    last.op = "configure_credentials" /\ last.ok =>
        /\ CredentialId \in creds
        /\ \A k \in Sent(last.trace, "createCredentials") :
              \E j \in Sent(last.trace, "list") : j > k /\ last.trace[j].status = "ok"


\* C24: configure_agent returns success exactly when it submitted the
\* creation request and that request was answered with a success status; a
\* cookie, crumb or creation request that ends otherwise makes it fail.
C24_SuccessIffCreationAccepted ==
    last.op = "configure_agent" =>
        /\ last.ok <=> \E k \in Sent(last.trace, "doCreateItem") :
                          last.trace[k].status = "ok"
        /\ (\E k \in 1..Len(last.trace) : last.trace[k].status # "ok") => ~last.ok
        /\ \A k \in 1..Len(last.trace) :
              last.trace[k].req \in {"cookie", "crumb", "doCreateItem"}

C24_Witness ==
    /\ last.op = "configure_agent" /\ last.ok
    /\ prev.op = "configure_agent" /\ ~prev.ok /\ prev.session # {}
    /\ prev.name = last.name


\* C26: every configure_agent call first asks for a session cookie, then
\* for a crumb with the cookie it was just handed, and sends the creation
\* request only after both were obtained, with that cookie and that crumb;
\* when either is not obtained no creation request is sent.
C26_FreshSessionPerCall ==
    last.op = "configure_agent" =>
        LET t == last.trace IN
        /\ Len(t) \in 1..3
        /\ t[1].req = "cookie"
        /\ Len(t) >= 2 =>
              /\ t[1].status = "ok"
              /\ t[2].req = "crumb"
              /\ t[2].arg.cookies = t[1].arg.set_cookie
        /\ Len(t) = 3 =>
              /\ t[2].status = "ok"
              /\ t[3].req = "doCreateItem"
              /\ t[3].arg.cookies = t[1].arg.set_cookie
              /\ t[3].arg.crumb = t[2].arg.crumb
        /\ (\E k \in Sent(t, "cookie") \cup Sent(t, "crumb") : t[k].status # "ok")
              => Sent(t, "doCreateItem") = {}

C26_Witness ==
    /\ last.op = "configure_agent" /\ prev.op = "configure_agent"
    /\ prev.session = {<<"s1", "s1">>}
    /\ \E k \in Sent(last.trace, "doCreateItem") :
          /\ last.trace[k].arg.cookies = "s2"
          /\ last.trace[k].arg.crumb = "s2"
          /\ last.trace[1].arg.set_cookie = "s2"


\* C25: a run of ssh generate --force on existing keys in which every
\* command succeeded has backed the pair up and has then generated a new
\* pair.
C25_ForceRegenerates ==
    /\ last.op = "ssh generate" /\ last.arg
    /\ "ssh_keys" \in last.before.resources
    /\ \A k \in 1..Len(last.trace) : last.trace[k].status = "ok"
    => /\ "ssh_backup" \in resources
       /\ \E b \in Sent(last.trace, "copy keys to backup") :
             \E g \in Sent(last.trace, "ssh-keygen") :
                 b < g /\ last.trace[g].status = "ok"


\* C27: when configure_initial_setup returns success the script was copied
\* and the coordinator was then restarted: a stop accepted after the copy
\* and a start accepted after the stop.
C27_SuccessMeansRestarted ==
    last.op = "configure_initial_setup" /\ last.returned /\ last.ok =>
        \E c \in Sent(last.trace, "docker cp") :
            /\ last.trace[c].status = "ok"
            /\ \E s \in Sent(last.trace, "docker stop") :
                  /\ c < s /\ last.trace[s].status = "ok"
                  /\ \E g \in Sent(last.trace, "docker start") :
                        s < g /\ last.trace[g].status = "ok"


\* C28: a configure_credentials call that went past the lookup and could
\* not read the key file, or could not obtain a crumb, returns failure, has
\* submitted no creation request and leaves the store as it was.
C28_NoCreateWithoutKeyOrCrumb ==
    /\ last.op = "configure_credentials"
    /\ \E k \in Sent(last.trace, "readKey") \cup Sent(last.trace, "crumb") :
          last.trace[k].status # "ok"
    => /\ ~last.ok
       /\ Sent(last.trace, "createCredentials") = {}
       /\ creds = last.before

C28_Witness ==
    /\ last.op = "configure_credentials"
    /\ last.trace[1].req = "list" /\ last.trace[1].status = "ok"
    /\ \E k \in Sent(last.trace, "crumb") : last.trace[k].status = "err"
    /\ prev.op = "configure_credentials" /\ ~prev.ok /\ prev.creates = 0
    /\ prev.faults = 1
    /\ creds = {}


\* C29: once the client has cached a crumb, a configure_credentials call
\* fetches no further crumb, and a header set built from then on carries the
\* cached crumb without a further fetch.
C29_CrumbCachedAndReused ==
    /\ last.op = "configure_credentials" /\ self_crumb # NoCrumb
          => Sent(last.trace, "crumb") = {}
    /\ last.op = "_get_headers" /\ last.before # NoCrumb
          => /\ Sent(last.trace, "crumb") = {}
             /\ last.before \subseteq last.headers


\* C30: in every batch, the creation request made for the worker of index
\* i names the node <prefix>-i, gives as launcher host the name of the
\* worker's container and as port the internal port 22, never the external
\* port base port + i - 1; an accepted request leaves the node under that
\* name.
C30_RegistrationUsesContainerName ==
    last.op = "deploy_agents" =>
        \A i \in 1..last.count :
            \A k \in WorkerRequests(i, {"doCreateItem"}) :
                LET a == last.trace[k].arg IN
                /\ a.name = <<base_name, i>>
                /\ a.host = a.name
                /\ \A r \in WorkerRequests(i, {"docker run"}) :
                      last.trace[r].arg.name = a.host
                /\ a.port = 22
                /\ a.port # base_ssh_port + i - 1
                /\ last.trace[k].status = "ok" => a.name \in nodes

C30_Witness ==
    /\ last.op = "deploy_agents"
    /\ last.count = 3
    /\ base_ssh_port # DefaultBaseSshPort
    /\ \E k \in WorkerRequests(3, {"doCreateItem"}) :
          /\ last.trace[k].status = "ok"
          /\ last.trace[k].arg.port = InternalSshPort
    /\ \E r \in WorkerRequests(3, {"docker run"}) :
          last.trace[r].arg.port = base_ssh_port + 2


\* The times, in seconds after the start of the last wait, at which its
\* probes were issued.
ProbeTimes == {k * SleepInterval : k \in 0..(last.probes - 1)}

\* C31: a wait returns true exactly when one of its probes, issued before
\* the deadline, was answered with status 200; a probe that is refused or
\* answered with another status counts as not ready, and no wait ends with
\* an exception.
C31_ReadyIffProbeSaw200 ==
    last.op = "wait_for_jenkins_ready" =>
        /\ ~last.raised
        /\ (last.returned /\ last.ready) <=>
              \E t \in ProbeTimes :
                  /\ t < last.timeout
                  /\ last.coordinator.reachable /\ t >= last.coordinator.readyAt
        /\ \A t \in ProbeTimes : t < last.timeout

C31_Witness ==
    /\ last.op = "wait_for_jenkins_ready"
    /\ last.coordinator.early = "refused"
    /\ last.coordinator.readyAt = 2 * SleepInterval
    /\ last.probes = 3 /\ last.ready
    /\ prev.op = "wait_for_jenkins_ready"

\* C32: a readiness probe ends within its own network timeout, so every
\* wait returns, also on a coordinator that accepts the connection and never
\* answers: then with false, once the deadline has elapsed.
C32_ProbeBounded ==
    last.op = "wait_for_jenkins_ready" =>
        /\ last.returned
        /\ ~last.ready => last.elapsed >= last.timeout


RECURSIVE IsMerge(_, _, _)
\* Sequence s is sequences a and b interleaved, each in its own order.
IsMerge(s, a, b) ==
    IF s = <<>> THEN a = <<>> /\ b = <<>>
    ELSE \/ a # <<>> /\ Head(a) = Head(s) /\ IsMerge(Tail(s), Tail(a), b)
         \/ b # <<>> /\ Head(b) = Head(s) /\ IsMerge(Tail(s), a, Tail(b))

\* The names of a list of entries.
NamesOf(entries) == [k \in 1..Len(entries) |-> entries[k].plugin]

\* The listing queries of the last call, in the order of issue.
ListingQueries ==
    {k \in 1..Len(last.trace) : last.trace[k].req = "pluginInfo"}

\* What the coordinator's listing holds when request k of the last call is
\* issued: what it held before the call and what the call installed since.
InstalledAt(k) ==
    last.before \cup
    {last.trace[j].arg.plugin :
        j \in {i \in Sent(last.trace, "installNecessaryPlugins") :
                  i < k /\ last.trace[i].status = "ok"}}

\* C33: in an install_plugins call that reaches its loop, every requested
\* name gets its pass, in the order of the request, and ends in exactly one
\* of the installed and the failed list, the two lists interleaving to the
\* request list; a name its listing query found installed gets no install
\* request; and a failed or raising pass is followed by the passes of the
\* remaining names.
C33_EveryNameOneOutcome ==
    last.op = "install_plugins" /\ ReachedLoop(last) =>
        /\ Len(last.installed) + Len(last.failed) = Len(last.requested)
        /\ IsMerge(last.requested, NamesOf(last.installed), NamesOf(last.failed))
        /\ Cardinality(ListingQueries) = Len(last.requested)
        /\ \A k \in ListingQueries :
              /\ last.trace[k].arg.plugin =
                    last.requested[Cardinality({j \in ListingQueries : j <= k})]
              /\ (last.trace[k].status = "ok"
                     /\ last.trace[k].arg.plugin \in InstalledAt(k))
                 => (k + 1 <= Len(last.trace)
                        => last.trace[k + 1].req # "installNecessaryPlugins")

C33_Witness ==
    /\ last.op = "install_plugins" /\ ReachedLoop(last)
    /\ last.requested = <<"a", "a">>
    /\ NamesOf(last.failed) = <<"a">>
    /\ NamesOf(last.installed) = <<"a">>
    /\ last.failed[1].note = "Error"
    /\ Sent(last.trace, "installNecessaryPlugins") = {}
    /\ "a" \in last.before


\* C34: the configuration record is read-only once created: at the end of
\* a command the record the managers were constructed with holds what it
\* held at their construction, and the defaults record holds what
\* config/defaults.py wrote.
C34_ConfigReadOnly ==
    last.op \in {"setup", "master deploy", "agent deploy", "ssh generate"} =>
        /\ last.config = load_config(DEFAULT_CONFIG, last.before.config_file)
        /\ last.config = DEFAULT_CONFIG


\* The create commands of the last create_network / create_volume call.
CreateCommands == Sent(last.trace, "docker " \o last.kind \o " create")

\* C35: create_network and create_volume issue the create command only
\* after a listing that was answered and did not hold the name; a call on an
\* existing resource whose listing is answered succeeds and leaves it as it
\* is, so repeated calls succeed and leave one resource; and a call whose
\* listing fails issues no create command and returns failure.
C35_CreateIdempotent ==
    last.op \in {"create_network", "create_volume"} =>
        LET ls == last.trace[1] IN
        /\ ls.req = "docker " \o last.kind \o " ls"
        /\ CreateCommands # {} => ls.status = "ok" /\ last.kind \notin last.before
        /\ ls.status # "ok" =>
              ~last.ok /\ CreateCommands = {} /\ resources = last.before
        /\ (ls.status = "ok" /\ last.kind \in last.before) =>
              last.ok /\ CreateCommands = {} /\ resources = last.before
        /\ last.ok => last.kind \in resources
        /\ (prev.op = last.op /\ prev.ok /\ ls.status = "ok") =>
              last.ok /\ prev.creates + Cardinality(CreateCommands) <= 1

C35_Witness ==
    /\ last.op = "create_volume" /\ prev.op = "create_volume"
    /\ prev.ok /\ prev.creates = 1
    /\ last.ok /\ CreateCommands = {}
    /\ "network" \notin resources


\* Worker i of the last batch has its container started and its node
\* registration attempted without success.
RegistrationFailed(i) ==
    /\ \E k \in WorkerRequests(i, {"docker run"}) : last.trace[k].status = "ok"
    /\ WorkerRequests(i, {"cookie"}) # {}
    /\ \A k \in WorkerRequests(i, {"doCreateItem"}) : last.trace[k].status # "ok"

\* C36: in every per-worker result the error is null exactly when the
\* container outcome and the registration outcome are both success; the
\* registration outcome is set only with a container outcome of success; and
\* a worker whose container was started and whose registration failed is
\* reported with container success, registration failed and an error.
C36_ResultShape ==
    last.op = "deploy_agents" =>
        /\ \A k \in 1..Len(last.results) :
              LET r == last.results[k] IN
              /\ r.error = None <=>
                    (r.container_status = "success" /\ r.jenkins_status = "success")
              /\ r.jenkins_status \in {"success", "failed", None}
              /\ r.jenkins_status # None => r.container_status = "success"
        /\ \A i \in 1..last.count : RegistrationFailed(i) =>
              \A k \in ResultsOf(i) :
                  /\ last.results[k].container_status = "success"
                  /\ last.results[k].jenkins_status = "failed"
                  /\ last.results[k].error # None

C36_Witness ==
    /\ last.op = "deploy_agents"
    /\ last.count = 2
    /\ RegistrationFailed(2)
    /\ containers[2] = "running"
    /\ last.results[1].error = None
    /\ last.results[2].jenkins_status = "failed"


\* C37: a batch run while the container of worker i exists, as after a
\* batch that started it and failed to register it, has its docker run for i
\* refused, reports the container outcome failed and makes no control-plane
\* request for i: re-running deploy_agents leaves the worker unregistered.
C37_RerunCannotRegister ==
    last.op = "deploy_agents" =>
        \A i \in 1..last.count : last.containers_before[i] # "absent" =>
            /\ WorkerRequests(i, {"docker run"}) # {}
            /\ \A k \in WorkerRequests(i, {"docker run"}) : last.trace[k].status # "ok"
            /\ \A k \in ResultsOf(i) :
                  /\ last.results[k].container_status = "failed"
                  /\ last.results[k].jenkins_status # "success"
            /\ WorkerRequests(i, ControlPlaneRequests) = {}
            /\ containers[i] = last.containers_before[i]

C37_Witness ==
    /\ last.op = "deploy_agents" /\ prev.op = "deploy_agents"
    /\ last.count = 2
    /\ last.containers_before[1] = "running"
    /\ last.containers_before[2] = "absent"
    /\ _get_agent_name(1) \notin nodes
    /\ _get_agent_name(2) \in nodes


\* The key pair exists when request k of the last command is issued: it
\* existed before the command, or the command has generated it.
KeysExistAt(k) ==
    \/ "ssh_keys" \in last.before.resources
    \/ \E g \in Sent(last.trace, "ssh-keygen") : g < k /\ last.trace[g].status = "ok"

\* C38: setup and agent deploy start a worker container only while the key
\* pair exists; setup returns before the coordinator deploy step when the key
\* generation fails, and generates no pair over an existing one; agent deploy
\* without keys issues no runtime and no control-plane request.
C38_NoWorkerWithoutKeys ==
    last.op \in {"setup", "agent deploy"} =>
        /\ \A k \in Sent(last.trace, "docker run") :
              last.trace[k].who # 0 => KeysExistAt(k)
        /\ "ssh_keys" \in last.before.resources => Sent(last.trace, "ssh-keygen") = {}
        /\ FailedRequests("ssh-keygen") # {} =>
              /\ last.returned
              /\ last.steps = <<>>
              /\ \A g \in FailedRequests("ssh-keygen") : g = Len(last.trace)
        /\ (last.op = "agent deploy" /\ "ssh_keys" \notin last.before.resources) =>
              /\ \A k \in 1..Len(last.trace) : last.trace[k].req = "keys_exist"
              /\ containers = last.before.containers
              /\ nodes = last.before.nodes
              /\ creds = last.before.creds

C38_Witness ==
    /\ last.op = "agent deploy"
    /\ "ssh_keys" \notin last.before.resources
    /\ last.arg = 2
    /\ Len(last.trace) = 1
    /\ master = "running"


\* C39: a failed authenticate leaves the stored authentication state as it
\* was: is_authenticated and get_auth_token answer as before the call; and a
\* start_tunnel that follows a failed authenticate made with no token stored
\* does not pass its authentication check.
C39_FailedAuthLeavesState ==
    /\ last.op = "authenticate" /\ ~last.ok =>
          /\ is_authenticated(ngrok) = is_authenticated(last.before)
          /\ get_auth_token(ngrok) = get_auth_token(last.before)
    /\ (last.op = "start_tunnel" /\ prev.op = "authenticate"
            /\ ~prev.ok /\ prev.before = None) =>
          /\ ~last.ok
          /\ last.msg \in {"Ngrok is not installed", "Ngrok is not authenticated"}

===========================================================================
